---- MODULE Spec2Model ----
(***************************************************************************)
(* Jarvis assistant: the intent resolver (core/command_processor.py), the  *)
(* session state (core/session_manager.py) and the dialogue controller     *)
(* (jarvis.py).                                                            *)
(*                                                                         *)
(* Text is a sequence of one-character strings, so that normalisation,     *)
(* tokenisation, regular-expression search and substring tests are         *)
(* computed character by character as Python computes them.                *)
(***************************************************************************)
EXTENDS Integers, Sequences, FiniteSets, TLC

VARIABLES
    command_history,       \* SessionManager.command_history (deque, maxlen MEMORY_SIZE)
    pending_confirmation,  \* SessionManager.pending_confirmation
    alarm_threads,         \* SessionManager.alarm_threads
    current_mode,          \* Jarvis.current_mode
    is_running,            \* Jarvis.is_running
    continuous_listening,  \* Jarvis.continuous_listening
    is_muted,              \* SpeechEngine.is_muted
    base_volume,           \* SpeechEngine.base_volume, in tenths
    current_voice_style,   \* SpeechEngine.current_voice_style
    pc,                    \* where main is: constructed, running (in run), stopped
    inserted,              \* every command add_to_history was given (history claims)
    step                   \* what the last operation did and was given

vars == <<command_history, pending_confirmation, alarm_threads, current_mode,
          is_running, continuous_listening, is_muted, base_volume,
          current_voice_style, pc, inserted, step>>

-----------------------------------------------------------------------------
(* Characters and strings *)

\* Python's None. No text equals it: every element of a text is one character.
None == <<"None">>

\* Python's None where a dict is expected
NoneDict == [none |-> TRUE]

LowerChars == {"a","b","c","d","e","f","g","h","i","j","k","l","m",
               "n","o","p","q","r","s","t","u","v","w","x","y","z"}
UpperChars == {"A","B","C","D","E","F","G","H","I","J","K","L","M",
               "N","O","P","Q","R","S","T","U","V","W","X","Y","Z"}
DigitChars == {"0","1","2","3","4","5","6","7","8","9"}
\* \w and \s of Python's re module, restricted to ASCII
WordChars == LowerChars \cup UpperChars \cup DigitChars \cup {"_"}
SpaceChars == {" ", "\t", "\n", "\r"}

LowerAlphabet == <<"a","b","c","d","e","f","g","h","i","j","k","l","m","n","o","p","q","r","s","t","u","v","w","x","y","z">>
UpperAlphabet == <<"A","B","C","D","E","F","G","H","I","J","K","L","M","N","O","P","Q","R","S","T","U","V","W","X","Y","Z">>

\* a sequence given as a function on 1..n, as the tuple of its values
Tuple(f) == f \o <<>>

\* str.lower()
lower(s) ==
    Tuple([i \in 1..Len(s) |->
        IF s[i] \in UpperChars
        THEN LowerAlphabet[CHOOSE k \in 1..26 : UpperAlphabet[k] = s[i]]
        ELSE s[i]])

RECURSIVE lstrip(_)
lstrip(s) == IF s # <<>> /\ Head(s) \in SpaceChars THEN lstrip(Tail(s)) ELSE s

RECURSIVE rstrip(_)
rstrip(s) ==
    IF s # <<>> /\ s[Len(s)] \in SpaceChars THEN rstrip(SubSeq(s, 1, Len(s) - 1)) ELSE s

\* str.strip()
strip(s) == lstrip(rstrip(s))

\* the positions where sub occurs in s
Occurrences(s, sub) ==
    {i \in 1..(Len(s) - Len(sub) + 1) : SubSeq(s, i, i + Len(sub) - 1) = sub}

\* Python's "sub in s" on strings
Contains(s, sub) == Occurrences(s, sub) # {}

Min(S) == CHOOSE x \in S : \A y \in S : x <= y

\* s.split(sub, 1)[1], for sub in s
AfterFirst(s, sub) == SubSeq(s, Min(Occurrences(s, sub)) + Len(sub), Len(s))

RECURSIVE Flatten(_)
Flatten(ss) == IF Len(ss) = 0 THEN <<>> ELSE Head(ss) \o Flatten(Tail(ss))

\* str.split(): the maximal runs of non-whitespace characters
RECURSIVE split(_)
split(s) ==
    LET t == lstrip(s)
        n == IF \E i \in 1..Len(t) : t[i] \in SpaceChars
             THEN Min({i \in 1..Len(t) : t[i] \in SpaceChars}) - 1
             ELSE Len(t)
    IN  IF t = <<>> THEN <<>>
        ELSE <<SubSeq(t, 1, n)>> \o split(SubSeq(t, n + 1, Len(t)))

RECURSIVE ParseInt(_)
\* int() of a run of decimal digits
ParseInt(s) ==
    IF s = <<>> THEN 0
    ELSE 10 * ParseInt(SubSeq(s, 1, Len(s) - 1))
         + (CHOOSE d \in 0..9 : <<"0","1","2","3","4","5","6","7","8","9">>[d + 1] = s[Len(s)])

RECURSIVE FormatInt(_)
\* str() of a non-negative int
FormatInt(n) ==
    IF n < 10 THEN <<<<"0","1","2","3","4","5","6","7","8","9">>[n + 1]>>
    ELSE FormatInt(n \div 10) \o <<<<"0","1","2","3","4","5","6","7","8","9">>[(n % 10) + 1]>>

-----------------------------------------------------------------------------
(* Regular expressions: the subset of Python's re the repository uses.     *)
(* A pattern is a term; Match lists, in the order a backtracking matcher   *)
(* tries them, the ways the pattern matches s at position i.               *)

Str(cs) == <<"str", cs>>
AnyChar == <<"any">>
In(S) == <<"in", S>>
NotIn(S) == <<"notin", S>>
Bnd == <<"bnd">>
End == <<"end">>
Cat(rs) == <<"cat", rs>>
Alt(rs) == <<"alt", rs>>
\* between lo and hi repetitions (hi = -1: unbounded), greedy or lazy
Rep(lo, hi, greedy, r) == <<"rep", lo, hi, greedy, r>>
Grp(k, r) == <<"grp", k, r>>

NoGroups == <<<<0, 0>>, <<0, 0>>>>

IsWordAt(s, i) == i >= 1 /\ i <= Len(s) /\ s[i] \in WordChars

RECURSIVE Match(_, _, _, _), MatchCat(_, _, _, _, _), MatchRep(_, _, _, _, _),
          MatchRun(_, _, _, _)
Match(r, s, i, g) ==
    CASE r[1] = "str" ->
           IF i + Len(r[2]) - 1 <= Len(s) /\ SubSeq(s, i, i + Len(r[2]) - 1) = r[2]
           THEN << <<i + Len(r[2]), g>> >> ELSE <<>>
      [] r[1] = "any" ->
           IF i <= Len(s) /\ s[i] # "\n" THEN << <<i + 1, g>> >> ELSE <<>>
      [] r[1] = "in" ->
           IF i <= Len(s) /\ s[i] \in r[2] THEN << <<i + 1, g>> >> ELSE <<>>
      [] r[1] = "notin" ->
           IF i <= Len(s) /\ s[i] \notin r[2] THEN << <<i + 1, g>> >> ELSE <<>>
      [] r[1] = "bnd" ->
           IF IsWordAt(s, i - 1) # IsWordAt(s, i) THEN << <<i, g>> >> ELSE <<>>
      [] r[1] = "end" ->
           IF i = Len(s) + 1 \/ (i = Len(s) /\ s[i] = "\n")
           THEN << <<i, g>> >> ELSE <<>>
      [] r[1] = "cat" -> MatchCat(r[2], 1, s, i, g)
      [] r[1] = "alt" ->
           Flatten(Tuple([k \in 1..Len(r[2]) |-> Match(r[2][k], s, i, g)]))
      [] r[1] = "rep" -> MatchRep(r, 0, s, i, g)
      [] r[1] = "grp" ->
           LET inner == Match(r[3], s, i, g)
           IN  Tuple([k \in 1..Len(inner) |->
                   <<inner[k][1], [inner[k][2] EXCEPT ![r[2]] = <<i, inner[k][1]>>]>>])

MatchCat(rs, k, s, i, g) ==
    IF k > Len(rs) THEN << <<i, g>> >>
    ELSE LET first == Match(rs[k], s, i, g)
         IN  Flatten(Tuple([n \in 1..Len(first) |->
                        MatchCat(rs, k + 1, s, first[n][1], first[n][2])]))

\* a repetition of a one-character pattern ranges over one run of characters:
\* its ends are listed longest first (greedy) or shortest first (lazy)
MatchRun(r, s, i, g) ==
    LET run == CHOOSE L \in 0..(Len(s) - i + 1) :
                   /\ \A j \in 0..(L - 1) : Match(r[5], s, i + j, g) # <<>>
                   /\ L = Len(s) - i + 1 \/ Match(r[5], s, i + L, g) = <<>>
        most == IF r[3] # -1 /\ r[3] < run THEN r[3] ELSE run
    IN  Tuple([k \in 1..(most - r[2] + 1) |->
                 <<i + (IF r[4] THEN most - k + 1 ELSE r[2] + k - 1), g>>])

MatchRep(r, n, s, i, g) ==
    IF r[5][1] \in {"any", "in", "notin"} THEN MatchRun(r, s, i, g)
    ELSE
    LET once == IF r[3] = -1 \/ n < r[3] THEN Match(r[5], s, i, g) ELSE <<>>
        more == Flatten(Tuple([k \in 1..Len(once) |->
                           IF once[k][1] > i
                           THEN MatchRep(r, n + 1, s, once[k][1], once[k][2])
                           ELSE <<>>]))
        stop == IF n >= r[2] THEN << <<i, g>> >> ELSE <<>>
    IN  IF r[4] THEN more \o stop ELSE stop \o more

NoMatch == [found |-> FALSE, start |-> 0, end |-> 0, groups |-> NoGroups]

RECURSIVE SearchFrom(_, _, _)
\* the match found at position i, if matches lists one, else the search goes on
FirstOr(matches, r, s, i) ==
    IF Len(matches) > 0
    THEN [found |-> TRUE, start |-> i, end |-> matches[1][1], groups |-> matches[1][2]]
    ELSE SearchFrom(r, s, i + 1)

\* re.search from position i on: the leftmost match, and there the first one
\* the matcher finds
SearchFrom(r, s, i) ==
    IF i > Len(s) + 1 THEN NoMatch ELSE FirstOr(Match(r, s, i, NoGroups), r, s, i)

\* re.search(r, s)
Search(r, s) == SearchFrom(r, s, 1)

\* m.group(k)
Group(s, m, k) == SubSeq(s, m.groups[k][1], m.groups[k][2] - 1)

RECURSIVE SubFrom(_, _, _, _)
\* s from position from on, with the match m and every later one replaced
Replaced(m, r, repl, s, from) ==
    IF ~m.found THEN SubSeq(s, from, Len(s))
    ELSE SubSeq(s, from, m.start - 1) \o repl
         \o (IF m.end > m.start THEN SubFrom(r, repl, s, m.end)
             ELSE IF m.start <= Len(s)
                  THEN <<s[m.start]>> \o SubFrom(r, repl, s, m.start + 1)
                  ELSE <<>>)

SubFrom(r, repl, s, from) == Replaced(SearchFrom(r, s, from), r, repl, s, from)

\* re.sub(r, repl, s): every non-overlapping match, left to right
Sub(r, repl, s) == SubFrom(r, repl, s, 1)

-----------------------------------------------------------------------------
(* core/command_processor.py *)

FILLERS ==
    Cat(<<Bnd, Grp(1, Alt(<<Str(<<"p","l","e","a","s","e">>), Str(<<"c","o","u","l","d"," ","y","o","u">>), Str(<<"w","o","u","l","d"," ","y","o","u">>), Str(<<"h","e","y">>), Str(<<"j","a","r","v","i","s">>), Str(<<"o","k">>), Str(<<"o","k","a","y">>), Str(<<"s","o">>), Str(<<"u","m">>), Str(<<"u","h">>), Str(<<"t","h","e">>), Str(<<"a">>), Str(<<"a","n">>)>>)), Bnd>>)

normalize(text) ==
    IF text = None \/ text = <<>> THEN <<>>
    ELSE LET t1 == lower(text)
             t2 == Sub(NotIn(WordChars \cup SpaceChars), <<" ">>, t1)
             t3 == Sub(FILLERS, <<" ">>, t2)
         IN  strip(Sub(Rep(1, -1, TRUE, In(SpaceChars)), <<" ">>, t3))

tokens(text) == split(text)

Range(f) == {f[i] : i \in DOMAIN f}

\* a score that divides by the number of tokens and keywords together
overlap_score_by_both_lengths(toks, keywords) ==
    IF keywords = <<>> THEN <<0, 1>>
    ELSE LET tset == Range(toks)
             kset == Range(keywords)
         IN  <<Cardinality(tset \cap kset), Cardinality(tset) + Cardinality(kset)>>

\* a score is the fraction <<overlap, number of keywords>>; 0.0 is <<0, 1>>
overlap_score(toks, keywords) ==
    IF keywords = <<>> THEN <<0, 1>>
    ELSE LET tset == Range(toks)
             kset == Range(keywords)
         IN  <<Cardinality(tset \cap kset), Cardinality(kset)>>

intent_definitions == <<
    [name |-> "time",
     keywords |-> <<<<"t","i","m","e">>, <<"c","l","o","c","k">>>>,
     patterns |-> <<Cat(<<Bnd, Str(<<"w","h","a","t">>), Rep(0, 1, TRUE, AnyChar), Str(<<"t","i","m","e">>), Bnd>>),
                    Cat(<<Bnd, Str(<<"t","e","l","l">>), Rep(0, -1, TRUE, AnyChar), Str(<<"t","i","m","e">>), Bnd>>),
                    Cat(<<Bnd, Str(<<"t","i","m","e"," ","n","o","w">>), Bnd>>),
                    Cat(<<Bnd, Str(<<"c","u","r","r","e","n","t"," ","t","i","m","e">>), Bnd>>)>>],
    [name |-> "date",
     keywords |-> <<<<"d","a","t","e">>, <<"d","a","y">>, <<"t","o","d","a","y">>>>,
     patterns |-> <<Cat(<<Bnd, Str(<<"w","h","a","t">>), Rep(0, 1, TRUE, AnyChar), Str(<<"d","a","t","e">>), Bnd>>),
                    Cat(<<Bnd, Str(<<"t","e","l","l">>), Rep(0, -1, TRUE, AnyChar), Str(<<"d","a","t","e">>), Bnd>>),
                    Cat(<<Bnd, Str(<<"w","h","a","t","'","s"," ","t","o","d","a","y">>), Bnd>>),
                    Cat(<<Bnd, Str(<<"c","u","r","r","e","n","t"," ","d","a","t","e">>), Bnd>>)>>],
    [name |-> "weather",
     keywords |-> <<<<"w","e","a","t","h","e","r">>, <<"t","e","m","p","e","r","a","t","u","r","e">>, <<"f","o","r","e","c","a","s","t">>,
                    <<"r","a","i","n">>, <<"h","o","t">>, <<"c","o","l","d">>>>,
     patterns |-> <<Cat(<<Bnd, Str(<<"w","e","a","t","h","e","r">>), Bnd>>),
                    Cat(<<Bnd, Str(<<"h","o","w">>), Rep(0, -1, TRUE, AnyChar), Str(<<"t","e","m","p","e","r","a","t","u","r","e">>), Bnd>>),
                    Cat(<<Bnd, Str(<<"f","o","r","e","c","a","s","t">>), Bnd>>)>>],
    [name |-> "wikipedia",
     keywords |-> <<<<"w","h","o">>, <<"w","h","a","t">>, <<"w","i","k","i","p","e","d","i","a">>, <<"w","i","k","i">>,
                    <<"t","e","l","l">>, <<"a","b","o","u","t">>>>,
     patterns |-> <<Cat(<<Bnd, Grp(1, Alt(<<Str(<<"w","h","o">>), Str(<<"w","h","a","t">>)>>)), Bnd, Rep(0, -1, TRUE, AnyChar), Bnd, Grp(2, Alt(<<Str(<<"i","s">>), Str(<<"w","a","s">>), Str(<<"a","r","e">>)>>)), Bnd>>),
                    Cat(<<Bnd, Str(<<"t","e","l","l"," ","m","e"," ","a","b","o","u","t">>), Bnd>>),
                    Cat(<<Bnd, Str(<<"w","i","k","i","p","e","d","i","a">>), Bnd>>),
                    Cat(<<Bnd, Str(<<"w","i","k","i">>), Bnd>>)>>],
    [name |-> "search",
     keywords |-> <<<<"s","e","a","r","c","h">>, <<"g","o","o","g","l","e">>, <<"f","i","n","d">>, <<"l","o","o","k">>,
                    <<"l","o","o","k","u","p">>, <<"s","e","a","r","c","h","i","n","g">>>>,
     patterns |-> <<Cat(<<Bnd, Str(<<"s","e","a","r","c","h">>), Bnd>>),
                    Cat(<<Bnd, Str(<<"l","o","o","k"," ","u","p">>), Bnd>>),
                    Cat(<<Bnd, Str(<<"g","o","o","g","l","e">>), Bnd>>),
                    Cat(<<Bnd, Str(<<"f","i","n","d">>), Bnd>>)>>],
    [name |-> "open_app",
     keywords |-> <<<<"o","p","e","n">>, <<"l","a","u","n","c","h">>, <<"s","t","a","r","t">>, <<"r","u","n">>>>,
     patterns |-> <<Cat(<<Bnd, Str(<<"o","p","e","n">>), Bnd>>),
                    Cat(<<Bnd, Str(<<"l","a","u","n","c","h">>), Bnd>>),
                    Cat(<<Bnd, Str(<<"s","t","a","r","t">>), Bnd>>),
                    Cat(<<Bnd, Str(<<"r","u","n">>), Bnd>>)>>],
    [name |-> "system_status",
     keywords |-> <<<<"c","p","u">>, <<"b","a","t","t","e","r","y">>, <<"m","e","m","o","r","y">>, <<"r","a","m">>,
                    <<"n","e","t","w","o","r","k">>, <<"i","n","t","e","r","n","e","t">>, <<"s","t","a","t","u","s">>>>,
     patterns |-> <<Cat(<<Bnd, Str(<<"s","y","s","t","e","m">>), Bnd, Rep(0, -1, TRUE, AnyChar), Bnd, Grp(1, Alt(<<Str(<<"s","t","a","t","u","s">>), Str(<<"i","n","f","o">>)>>)), Bnd>>),
                    Cat(<<Bnd, Grp(1, Alt(<<Str(<<"c","p","u">>), Str(<<"b","a","t","t","e","r","y">>), Str(<<"m","e","m","o","r","y">>), Str(<<"r","a","m">>), Str(<<"n","e","t","w","o","r","k">>), Str(<<"i","n","t","e","r","n","e","t">>)>>)), Bnd>>)>>],
    [name |-> "reminder",
     keywords |-> <<<<"r","e","m","i","n","d">>, <<"r","e","m","i","n","d","e","r">>, <<"r","e","m","e","m","b","e","r">>, <<"r","e","m","i","n","d"," ","m","e">>>>,
     patterns |-> <<Cat(<<Bnd, Grp(1, Alt(<<Str(<<"r","e","m","i","n","d">>), Str(<<"r","e","m","i","n","d","e","r">>)>>)), Bnd>>),
                    Cat(<<Bnd, Str(<<"r","e","m","e","m","b","e","r">>), Bnd>>)>>],
    [name |-> "volume",
     keywords |-> <<<<"v","o","l","u","m","e">>, <<"l","o","u","d","e","r">>, <<"s","o","f","t","e","r">>, <<"m","u","t","e">>,
                    <<"u","n","m","u","t","e">>, <<"q","u","i","e","t","e","r">>>>,
     patterns |-> <<Cat(<<Bnd, Grp(1, Alt(<<Str(<<"l","o","u","d","e","r">>), Str(<<"s","o","f","t","e","r">>), Str(<<"m","u","t","e">>), Str(<<"u","n","m","u","t","e">>), Str(<<"v","o","l","u","m","e">>), Str(<<"q","u","i","e","t","e","r">>)>>)), Bnd>>)>>],
    [name |-> "voice_style",
     keywords |-> <<<<"v","o","i","c","e">>, <<"s","t","y","l","e">>, <<"f","o","r","m","a","l">>, <<"c","a","s","u","a","l">>, <<"r","o","b","o","t","i","c">>>>,
     patterns |-> <<Cat(<<Bnd, Grp(1, Alt(<<Str(<<"v","o","i","c","e">>), Str(<<"s","t","y","l","e">>)>>)), Bnd>>),
                    Cat(<<Bnd, Str(<<"f","o","r","m","a","l">>), Bnd>>),
                    Cat(<<Bnd, Str(<<"c","a","s","u","a","l">>), Bnd>>),
                    Cat(<<Bnd, Str(<<"r","o","b","o","t","i","c">>), Bnd>>)>>],
    [name |-> "help",
     keywords |-> <<<<"h","e","l","p">>, <<"c","o","m","m","a","n","d","s">>, <<"f","e","a","t","u","r","e","s">>, <<"w","h","a","t"," ","c","a","n"," ","y","o","u"," ","d","o">>>>,
     patterns |-> <<Cat(<<Bnd, Str(<<"h","e","l","p">>), Bnd>>),
                    Cat(<<Bnd, Str(<<"w","h","a","t"," ","c","a","n"," ","y","o","u"," ","d","o">>), Bnd>>),
                    Cat(<<Bnd, Str(<<"c","o","m","m","a","n","d","s">>), Bnd>>)>>],
    [name |-> "exit",
     keywords |-> <<<<"e","x","i","t">>, <<"q","u","i","t">>, <<"b","y","e">>, <<"g","o","o","d","b","y","e">>, <<"s","t","o","p">>>>,
     patterns |-> <<Cat(<<Bnd, Grp(1, Alt(<<Str(<<"e","x","i","t">>), Str(<<"q","u","i","t">>), Str(<<"b","y","e">>), Str(<<"g","o","o","d","b","y","e">>), Str(<<"s","t","o","p">>)>>)), Bnd>>)>>],
    [name |-> "listening",
     keywords |-> <<<<"s","t","a","r","t">>, <<"s","t","o","p">>, <<"l","i","s","t","e","n","i","n","g">>>>,
     patterns |-> <<Cat(<<Bnd, Str(<<"s","t","a","r","t"," ","l","i","s","t","e","n","i","n","g">>), Bnd>>),
                    Cat(<<Bnd, Str(<<"s","t","o","p"," ","l","i","s","t","e","n","i","n","g">>), Bnd>>)>>]
>>

IntentNames == {intent_definitions[k].name : k \in DOMAIN intent_definitions}

regex_city == Cat(<<Str(<<"i","n">>), Rep(1, -1, TRUE, In(SpaceChars)), Grp(1, Rep(1, -1, TRUE, In(LowerChars \cup SpaceChars))), End>>)
regex_search == Cat(<<Alt(<<Cat(<<Str(<<"s","e","a","r","c","h">>), Rep(1, -1, TRUE, In(SpaceChars)), Str(<<"f","o","r">>)>>), Str(<<"s","e","a","r","c","h">>), Str(<<"g","o","o","g","l","e">>), Str(<<"f","i","n","d">>)>>), Rep(1, -1, TRUE, In(SpaceChars)), Grp(1, Rep(1, -1, TRUE, AnyChar)), End>>)
regex_open == Cat(<<Alt(<<Str(<<"o","p","e","n">>), Str(<<"l","a","u","n","c","h">>), Str(<<"s","t","a","r","t">>), Str(<<"r","u","n">>)>>), Rep(1, -1, TRUE, In(SpaceChars)), Grp(1, Rep(1, -1, TRUE, AnyChar)), End>>)
regex_reminder == Cat(<<Str(<<"r","e","m","i","n","d"," ","m","e"," ">>), Rep(0, 1, TRUE, Cat(<<Str(<<"t","o">>), Rep(1, -1, TRUE, In(SpaceChars))>>)), Grp(1, Rep(1, -1, FALSE, AnyChar)), Str(<<" ">>), Alt(<<Str(<<"i","n">>), Str(<<"a","t">>), Str(<<"o","n">>), Str(<<"a","f","t","e","r">>)>>), Rep(1, -1, TRUE, In(SpaceChars)), Grp(2, Rep(1, -1, TRUE, AnyChar)), End>>)
regex_simple_remind == Cat(<<Str(<<"r","e","m","i","n","d"," ","m","e"," ","t","o"," ">>), Grp(1, Rep(1, -1, TRUE, AnyChar)), End>>)
regex_time_seconds == Cat(<<Grp(1, Rep(1, -1, TRUE, In(DigitChars))), Rep(0, -1, TRUE, In(SpaceChars)), Grp(2, Alt(<<Str(<<"s","e","c","o","n","d">>), Str(<<"s","e","c","o","n","d","s">>), Str(<<"m","i","n","u","t","e">>), Str(<<"m","i","n","u","t","e","s">>), Str(<<"h","o","u","r">>), Str(<<"h","o","u","r","s">>)>>))>>)

\* m.group(k).strip() if the search matched, else the default
GroupOr(s, m, k, default) == IF m.found THEN strip(Group(s, m, k)) ELSE default

\* the wikipedia branch: the first keyword that occurs in text with a
\* non-empty phrase after it gives the query, else the raw text does
wikipedia_query(text, raw) ==
    LET keywords == <<<<"w","h","o"," ","i","s">>, <<"w","h","a","t"," ","i","s">>, <<"t","e","l","l"," ","m","e"," ","a","b","o","u","t">>,
                      <<"w","i","k","i","p","e","d","i","a">>, <<"w","i","k","i">>>>
        hits == {k \in 1..Len(keywords) :
                    /\ Contains(text, keywords[k])
                    /\ strip(AfterFirst(text, keywords[k])) # <<>>}
    IN  IF hits = {} THEN raw
        ELSE strip(AfterFirst(text, keywords[Min(hits)]))

\* the reminder branch, given the three searches in raw.lower()
reminder_params(raw, lowered, m, m2, m3) ==
    IF m.found
    THEN [message |-> strip(Group(lowered, m, 1)), time |-> strip(Group(lowered, m, 2))]
    ELSE IF m2.found
    THEN [value |-> ParseInt(Group(lowered, m2, 1)), unit |-> Group(lowered, m2, 2)]
    ELSE [message |-> GroupOr(lowered, m3, 1, raw)]

\* params is a Python dict: a function from its keys to their values
NoParams == [k \in {} |-> <<>>]

\* _extract_params without the else branch of weather: no city found, no
\* 'city' key
extract_params_no_default(intent, text, raw) ==
    CASE intent = "weather" /\ GroupOr(text, Search(regex_city, text), 1, None) # None ->
           [city |-> GroupOr(text, Search(regex_city, text), 1, None)]
      [] intent = "search" -> [query |-> GroupOr(text, Search(regex_search, text), 1, text)]
      [] intent = "wikipedia" -> [query |-> wikipedia_query(text, raw)]
      [] intent = "open_app" -> [app |-> GroupOr(text, Search(regex_open, text), 1, text)]
      [] intent = "reminder" ->
           reminder_params(raw, lower(raw),
                           Search(regex_reminder, lower(raw)),
                           Search(regex_time_seconds, lower(raw)),
                           Search(regex_simple_remind, lower(raw)))
      [] intent = "volume" ->
           [adjustment |->
               IF Contains(text, <<"l","o","u","d","e","r">>) \/ Contains(text, <<"i","n","c","r","e","a","s","e">>)
                  \/ Contains(text, <<"u","p">>) THEN <<"l","o","u","d","e","r">>
               ELSE IF Contains(text, <<"s","o","f","t","e","r">>) \/ Contains(text, <<"d","o","w","n">>)
                  \/ Contains(text, <<"q","u","i","e","t","e","r">>) THEN <<"s","o","f","t","e","r">>
               ELSE IF Contains(text, <<"m","u","t","e">>) \/ Contains(text, <<"s","i","l","e","n","c","e">>)
                  \/ Contains(text, <<"q","u","i","e","t">>) THEN <<"m","u","t","e">>
               ELSE None]
      [] intent = "voice_style" ->
           [style |->
               IF Contains(text, <<"f","o","r","m","a","l">>) THEN <<"f","o","r","m","a","l">>
               ELSE IF Contains(text, <<"c","a","s","u","a","l">>) THEN <<"c","a","s","u","a","l">>
               ELSE IF Contains(text, <<"r","o","b","o","t","i","c">>) \/ Contains(text, <<"r","o","b","o","t">>)
                    THEN <<"r","o","b","o","t","i","c">>
               ELSE None]
      [] intent = "system_status" ->
           [type |->
               IF Contains(text, <<"c","p","u">>) THEN <<"c","p","u">>
               ELSE IF Contains(text, <<"b","a","t","t","e","r","y">>) THEN <<"b","a","t","t","e","r","y">>
               ELSE IF Contains(text, <<"n","e","t","w","o","r","k">>) \/ Contains(text, <<"i","n","t","e","r","n","e","t">>)
                       \/ Contains(text, <<"c","o","n","n","e","c","t","i","o","n">>) THEN <<"n","e","t","w","o","r","k">>
               ELSE <<"a","l","l">>]
      [] intent = "listening" ->
           [mode |->
               IF Contains(text, <<"s","t","a","r","t">>) THEN <<"s","t","a","r","t">>
               ELSE IF Contains(text, <<"s","t","o","p">>) THEN <<"s","t","o","p">>
               ELSE None]
      [] OTHER -> NoParams

extract_params(intent, text, raw) ==
    CASE intent = "weather" -> [city |-> GroupOr(text, Search(regex_city, text), 1, None)]
      [] intent = "search" -> [query |-> GroupOr(text, Search(regex_search, text), 1, text)]
      [] intent = "wikipedia" -> [query |-> wikipedia_query(text, raw)]
      [] intent = "open_app" -> [app |-> GroupOr(text, Search(regex_open, text), 1, text)]
      [] intent = "reminder" ->
           reminder_params(raw, lower(raw),
                           Search(regex_reminder, lower(raw)),
                           Search(regex_time_seconds, lower(raw)),
                           Search(regex_simple_remind, lower(raw)))
      [] intent = "volume" ->
           [adjustment |->
               IF Contains(text, <<"l","o","u","d","e","r">>) \/ Contains(text, <<"i","n","c","r","e","a","s","e">>)
                  \/ Contains(text, <<"u","p">>) THEN <<"l","o","u","d","e","r">>
               ELSE IF Contains(text, <<"s","o","f","t","e","r">>) \/ Contains(text, <<"d","o","w","n">>)
                  \/ Contains(text, <<"q","u","i","e","t","e","r">>) THEN <<"s","o","f","t","e","r">>
               ELSE IF Contains(text, <<"m","u","t","e">>) \/ Contains(text, <<"s","i","l","e","n","c","e">>)
                  \/ Contains(text, <<"q","u","i","e","t">>) THEN <<"m","u","t","e">>
               ELSE None]
      [] intent = "voice_style" ->
           [style |->
               IF Contains(text, <<"f","o","r","m","a","l">>) THEN <<"f","o","r","m","a","l">>
               ELSE IF Contains(text, <<"c","a","s","u","a","l">>) THEN <<"c","a","s","u","a","l">>
               ELSE IF Contains(text, <<"r","o","b","o","t","i","c">>) \/ Contains(text, <<"r","o","b","o","t">>)
                    THEN <<"r","o","b","o","t","i","c">>
               ELSE None]
      [] intent = "system_status" ->
           [type |->
               IF Contains(text, <<"c","p","u">>) THEN <<"c","p","u">>
               ELSE IF Contains(text, <<"b","a","t","t","e","r","y">>) THEN <<"b","a","t","t","e","r","y">>
               ELSE IF Contains(text, <<"n","e","t","w","o","r","k">>) \/ Contains(text, <<"i","n","t","e","r","n","e","t">>)
                       \/ Contains(text, <<"c","o","n","n","e","c","t","i","o","n">>) THEN <<"n","e","t","w","o","r","k">>
               ELSE <<"a","l","l">>]
      [] intent = "listening" ->
           [mode |->
               IF Contains(text, <<"s","t","a","r","t">>) THEN <<"s","t","a","r","t">>
               ELSE IF Contains(text, <<"s","t","o","p">>) THEN <<"s","t","o","p">>
               ELSE None]
      [] OTHER -> NoParams

\* sort_scores with an unstable order: of equal scores the later entry
\* comes first
RECURSIVE sort_scores_unstable(_)
sort_scores_unstable(scores) ==
    IF scores = <<>> THEN <<>>
    ELSE LET rest == sort_scores_unstable(SubSeq(scores, 1, Len(scores) - 1))
             x == scores[Len(scores)]
             ahead == {k \in 1..Len(rest) :
                         rest[k][2][1] * x[2][2] > x[2][1] * rest[k][2][2]}
             n == IF ahead = {} THEN 0 ELSE CHOOSE k \in ahead : \A j \in ahead : j <= k
         IN  SubSeq(rest, 1, n) \o <<x>> \o SubSeq(rest, n + 1, Len(rest))

\* scores.sort(key=lambda x: x[1], reverse=True): a stable sort, so entries
\* of equal score keep their catalog order
RECURSIVE sort_scores(_)
sort_scores(scores) ==
    IF scores = <<>> THEN <<>>
    ELSE LET rest == sort_scores(SubSeq(scores, 1, Len(scores) - 1))
             x == scores[Len(scores)]
             \* x goes after every entry whose score is at least its own
             ahead == {k \in 1..Len(rest) :
                         rest[k][2][1] * x[2][2] >= x[2][1] * rest[k][2][2]}
             n == IF ahead = {} THEN 0 ELSE CHOOSE k \in ahead : \A j \in ahead : j <= k
         IN  SubSeq(rest, 1, n) \o <<x>> \o SubSeq(rest, n + 1, Len(rest))

\* the intents, in catalog order, one of whose patterns is found in text
pattern_matches(text) ==
    {k \in DOMAIN intent_definitions :
        \E p \in DOMAIN intent_definitions[k].patterns :
            Search(intent_definitions[k].patterns[p], text).found}

\* the intents whose first two keywords are all among the tokens
required_matches(toks) ==
    {k \in DOMAIN intent_definitions :
        LET required == SubSeq(intent_definitions[k].keywords, 1,
                               IF Len(intent_definitions[k].keywords) < 2
                               THEN Len(intent_definitions[k].keywords) ELSE 2)
        IN  required # <<>> /\ \A j \in DOMAIN required : required[j] \in Range(toks)}

\* the scores of the keyword-overlap pass, in catalog order
overlap_scores(toks) ==
    Tuple([k \in DOMAIN intent_definitions |->
             <<intent_definitions[k].name,
               overlap_score(toks, intent_definitions[k].keywords)>>])

\* choose_intent with the two passes in the wrong order: the keyword overlap
\* is consulted before the patterns
choose_intent_overlap_first(matched, best, required) ==
    IF 4 * best[2][1] >= best[2][2] THEN best[1]
    ELSE IF matched # {} THEN intent_definitions[Min(matched)].name
    ELSE IF required # {} THEN intent_definitions[Min(required)].name
    ELSE "unknown"

\* the intent process settles on, "unknown" if none: the first intent with
\* a matching pattern, else the best-scored one if its score is at least
\* 0.25, else the first one with its required keywords
choose_intent(matched, best, required) ==
    IF matched # {} THEN intent_definitions[Min(matched)].name
    ELSE IF 4 * best[2][1] >= best[2][2] THEN best[1]
    ELSE IF required # {} THEN intent_definitions[Min(required)].name
    ELSE "unknown"

\* unknown giving up with None instead of the sentinel command
unknown_none(raw) == NoneDict

unknown(raw) == [action |-> "unknown", params |-> [text |-> raw]]

\* process handing the normalized text, not the raw one, to the unknown
\* command
command_for_normalized(intent, text, raw) ==
    IF intent = "unknown" THEN unknown(text)
    ELSE [action |-> intent, params |-> extract_params(intent, text, raw)]

command_for(intent, text, raw) ==
    IF intent = "unknown" THEN unknown(raw)
    ELSE [action |-> intent, params |-> extract_params(intent, text, raw)]

\* process from the point where the text is normalised
process_text(text, raw) ==
    command_for(choose_intent(pattern_matches(text),
                              sort_scores(overlap_scores(tokens(text)))[1],
                              required_matches(tokens(text))),
                text, raw)

process(raw) ==
    IF raw = None \/ raw = <<>> THEN unknown(raw) ELSE process_text(normalize(raw), raw)

-----------------------------------------------------------------------------
(* config.py *)

MEMORY_SIZE == 3
MAX_RECOGNITION_RETRIES == 3
MODE_VOICE == "voice"
MODE_MANUAL == "manual"
VOICE_STYLES == {<<"f","o","r","m","a","l">>, <<"c","a","s","u","a","l">>, <<"r","o","b","o","t","i","c">>}
DEFAULT_VOICE_STYLE == <<"f","o","r","m","a","l">>

-----------------------------------------------------------------------------
(* The operations below take the state of the program as a record st and   *)
(* return the state they leave.  Besides the fields of the objects, st     *)
(* records what the operation did: the handlers it invoked, the texts it   *)
(* passed to speak, the records it logged, the commands it appended to the *)
(* history, its writes of the pending slot (with the slot's content at the *)
(* time), and the exception it has raised ("" for none).  Once an          *)
(* exception is raised every later operation is skipped until the loop     *)
(* catches it.                                                             *)

NoError == ""

raise(st, exception) == IF st.raised # NoError THEN st ELSE [st EXCEPT !.raised = exception]

\* a call of an external collaborator (functions.*, threading)
invoke(st, fn, args) ==
    IF st.raised # NoError THEN st
    ELSE [st EXCEPT !.invoked = Append(@, [fn |-> fn, args |-> args])]

\* the message a handler returns: external data, named after the handler
Reply(fn) == <<fn>>

\* str() inside an f-string
Fmt(v) == IF v = None THEN <<"N","o","n","e">> ELSE v

(* core/speech_engine.py *)

speak(st, text) ==
    IF st.raised # NoError THEN st
    ELSE [st EXCEPT !.spoken =
            Append(@, [text |-> text,
                       audible |-> ~st.is_muted /\ text # <<>> /\ text # None])]

apply_voice_style(st, style) ==
    IF st.raised # NoError THEN st
    ELSE IF style \in VOICE_STYLES THEN [st EXCEPT !.current_voice_style = style]
    ELSE st

adjust_volume(st, adjustment) ==
    IF st.raised # NoError THEN st
    ELSE IF adjustment = <<"l","o","u","d","e","r">>
    THEN apply_voice_style(
            [st EXCEPT !.base_volume = IF @ + 2 > 10 THEN 10 ELSE @ + 2],
            st.current_voice_style)
    ELSE IF adjustment = <<"s","o","f","t","e","r">>
    THEN apply_voice_style(
            [st EXCEPT !.base_volume = IF @ - 2 < 2 THEN 2 ELSE @ - 2],
            st.current_voice_style)
    ELSE IF adjustment = <<"m","u","t","e">> THEN [st EXCEPT !.is_muted = ~@]
    ELSE st

(* core/session_manager.py *)

\* deque(maxlen=MEMORY_SIZE).append: a full deque drops its oldest entry.
\* The entry's timestamp, which no operation reads back, is left out.
\* add_to_history on a buffer that drops the newest entry when it is full
add_to_history_drop_newest(st, command) ==
    IF st.raised # NoError THEN st
    ELSE LET h == Append(st.command_history, [command |-> command])
         IN  [st EXCEPT !.command_history =
                            IF Len(h) > MEMORY_SIZE THEN SubSeq(h, 1, MEMORY_SIZE) ELSE h,
                        !.appended = Append(@, command)]

add_to_history(st, command) ==
    IF st.raised # NoError THEN st
    ELSE LET h == Append(st.command_history, [command |-> command])
         IN  [st EXCEPT !.command_history =
                            IF Len(h) > MEMORY_SIZE THEN Tail(h) ELSE h,
                        !.appended = Append(@, command)]

get_last_command(st) ==
    IF st.command_history # <<>>
    THEN st.command_history[Len(st.command_history)].command
    ELSE NoneDict

get_previous_command(st, offset) ==
    IF Len(st.command_history) >= offset
    THEN st.command_history[Len(st.command_history) - offset + 1].command
    ELSE NoneDict

set_pending_confirmation(st, action, params, message) ==
    IF st.raised # NoError THEN st
    ELSE [st EXCEPT !.pending_confirmation =
                        [action |-> action, params |-> params, message |-> message],
                    !.pending_writes =
                        Append(@, [was |-> st.pending_confirmation, action |-> action])]

get_pending_confirmation(st) == st.pending_confirmation

clear_pending_confirmation(st) ==
    IF st.raised # NoError THEN st ELSE [st EXCEPT !.pending_confirmation = NoneDict]

\* what confirm_action returns
confirmed_command(st) ==
    IF st.pending_confirmation # NoneDict
    THEN [action |-> st.pending_confirmation.action,
          params |-> st.pending_confirmation.params]
    ELSE NoneDict

\* confirm_action that reads the pending slot and forgets to clear it
confirm_action_keep(st) == st

\* the state confirm_action leaves
confirm_action(st) ==
    IF st.pending_confirmation # NoneDict THEN clear_pending_confirmation(st) ELSE st

\* set_alarm without line 118: the thread is started and not kept
set_alarm_unregistered(st, seconds, message) ==
    IF st.raised # NoError THEN st
    ELSE invoke(st, "threading.Thread.start", [seconds |-> seconds])

\* a thread that sleeps and then calls the callback, which speaks message
set_alarm(st, seconds, message) ==
    IF st.raised # NoError THEN st
    ELSE [invoke(st, "threading.Thread.start", [seconds |-> seconds])
            EXCEPT !.alarm_threads =
                Append(@, [seconds |-> seconds, message |-> message, fired |-> FALSE])]

StartsWith(s, prefix) == Len(s) >= Len(prefix) /\ SubSeq(s, 1, Len(prefix)) = prefix

\* calculate_seconds without unit.lower(): the prefixes are compared as given
calculate_seconds_case_sensitive(value, unit) ==
    IF StartsWith(unit, <<"s","e","c","o","n","d">>) THEN value
    ELSE IF StartsWith(unit, <<"m","i","n","u","t","e">>) THEN value * 60
    ELSE IF StartsWith(unit, <<"h","o","u","r">>) THEN value * 3600
    ELSE value

calculate_seconds(value, unit) ==
    IF StartsWith(lower(unit), <<"s","e","c","o","n","d">>) THEN value
    ELSE IF StartsWith(lower(unit), <<"m","i","n","u","t","e">>) THEN value * 60
    ELSE IF StartsWith(lower(unit), <<"h","o","u","r">>) THEN value * 3600
    ELSE value

\* needs_confirmation with an action too many in the list
needs_confirmation_wide(action) == action \in {"open_app", "alarm", "reminder", "time"}

needs_confirmation(action) == action \in {"open_app", "alarm", "reminder"}

(* utils/logger.py *)

log_command(st, command, mode) ==
    IF st.raised # NoError THEN st
    ELSE [st EXCEPT !.logged = Append(@, [command |-> command, mode |-> mode])]

(* jarvis.py *)

\* params[key] raises KeyError when the key is missing
Has(params, key) == key \in DOMAIN params

handle_speech_error(st, error) ==
    IF error = <<"t","i","m","e","o","u","t">>
    THEN [speak(st, <<"I"," ","d","i","d","n","'","t"," ","h","e","a","r"," ","a","n","y","t","h","i","n","g","."," ","S","w","i","t","c","h","i","n","g"," ","t","o"," ","m","a","n","u","a","l"," ","m","o","d","e",".">>)
            EXCEPT !.current_mode = MODE_MANUAL]
    ELSE IF error = <<"u","n","k","n","o","w","n">>
    THEN [speak(st, <<"I"," ","c","o","u","l","d","n","'","t"," ","u","n","d","e","r","s","t","a","n","d"," ","t","h","a","t","."," ","S","w","i","t","c","h","i","n","g"," ","t","o"," ","m","a","n","u","a","l"," ","m","o","d","e",".">>)
            EXCEPT !.current_mode = MODE_MANUAL]
    ELSE IF Contains(error, <<"n","e","t","w","o","r","k","_","e","r","r","o","r">>)
    THEN [speak(st, <<"N","e","t","w","o","r","k"," ","e","r","r","o","r"," ","d","e","t","e","c","t","e","d","."," ","S","w","i","t","c","h","i","n","g"," ","t","o"," ","m","a","n","u","a","l"," ","m","o","d","e",".">>)
            EXCEPT !.current_mode = MODE_MANUAL]
    ELSE IF error = <<"m","a","x","_","r","e","t","r","i","e","s">>
    THEN [speak(st, <<"M","a","x","i","m","u","m"," ","r","e","t","r","i","e","s"," ","r","e","a","c","h","e","d","."," ","S","w","i","t","c","h","i","n","g"," ","t","o"," ","m","a","n","u","a","l"," ","m","o","d","e",".">>)
            EXCEPT !.current_mode = MODE_MANUAL]
    ELSE speak(st, <<"E","r","r","o","r",":"," ">> \o error)

switch_mode(st, mode) ==
    IF st.raised # NoError THEN st
    ELSE IF mode = <<"v","o","i","c","e">>
    THEN speak([st EXCEPT !.current_mode = MODE_VOICE], <<"S","w","i","t","c","h","e","d"," ","t","o"," ","v","o","i","c","e"," ","m","o","d","e">>)
    ELSE IF mode = <<"m","a","n","u","a","l">>
    THEN speak([st EXCEPT !.current_mode = MODE_MANUAL], <<"S","w","i","t","c","h","e","d"," ","t","o"," ","m","a","n","u","a","l"," ","m","o","d","e">>)
    ELSE st

\* the help text, by its first line
show_help(st) == speak(st, <<"H","e","r","e","'","s"," ","w","h","a","t"," ","I"," ","c","a","n"," ","d","o",":">>)

set_alarm_from(st, params) ==
    IF ~Has(params, "value") \/ ~Has(params, "unit") THEN raise(st, "KeyError")
    ELSE speak(set_alarm(st, calculate_seconds(params.value, params.unit),
                         <<"A","l","a","r","m","!"," ">> \o FormatInt(params.value) \o <<" ">>
                            \o params.unit \o <<" ","h","a","s"," ","p","a","s","s","e","d","!">>),
               <<"A","l","a","r","m"," ","s","e","t"," ","f","o","r"," ">> \o FormatInt(params.value) \o <<" ">> \o params.unit)

set_reminder(st, params) ==
    IF ~Has(params, "value") \/ ~Has(params, "unit") \/ ~Has(params, "message")
    THEN raise(st, "KeyError")
    ELSE speak(set_alarm(st, calculate_seconds(params.value, params.unit),
                         <<"R","e","m","i","n","d","e","r",":"," ">> \o Fmt(params.message)),
               <<"R","e","m","i","n","d","e","r"," ","s","e","t"," ","f","o","r"," ">> \o FormatInt(params.value) \o <<" ">> \o params.unit)

handle_listening_mode(st, mode) ==
    IF st.raised # NoError THEN st
    ELSE IF mode = <<"s","t","a","r","t">>
    THEN speak([st EXCEPT !.continuous_listening = TRUE],
               <<"S","t","a","r","t","i","n","g"," ","c","o","n","t","i","n","u","o","u","s"," ","l","i","s","t","e","n","i","n","g"," ","m","o","d","e">>)
    ELSE IF mode = <<"s","t","o","p">>
    THEN speak([st EXCEPT !.continuous_listening = FALSE],
               <<"S","t","o","p","p","i","n","g"," ","c","o","n","t","i","n","u","o","u","s"," ","l","i","s","t","e","n","i","n","g"," ","m","o","d","e">>)
    ELSE st

request_confirmation(st, command) ==
    LET action == command.action
        params == command.params
        missing == \/ action = "open_app" /\ ~Has(params, "app")
                   \/ action = "alarm" /\ (~Has(params, "value") \/ ~Has(params, "unit"))
                   \/ action = "reminder" /\ ~Has(params, "message")
        message ==
            IF action = "open_app"
            THEN <<"D","o"," ","y","o","u"," ","w","a","n","t"," ","m","e"," ","t","o"," ","o","p","e","n"," ">> \o Fmt(params.app) \o <<"?"," ","S","a","y"," ","y","e","s"," ","o","r"," ","n","o",".">>
            ELSE IF action = "alarm"
            THEN <<"D","o"," ","y","o","u"," ","w","a","n","t"," ","m","e"," ","t","o"," ","s","e","t"," ","a","n"," ","a","l","a","r","m"," ","f","o","r"," ">> \o FormatInt(params.value)
                 \o <<" ">> \o params.unit \o <<"?"," ","S","a","y"," ","y","e","s"," ","o","r"," ","n","o",".">>
            ELSE IF action = "reminder"
            THEN <<"D","o"," ","y","o","u"," ","w","a","n","t"," ","m","e"," ","t","o"," ","s","e","t"," ","a"," ","r","e","m","i","n","d","e","r"," ","f","o","r"," ">> \o Fmt(params.message)
                 \o <<"?"," ","S","a","y"," ","y","e","s"," ","o","r"," ","n","o",".">>
            ELSE <<"D","o"," ","y","o","u"," ","w","a","n","t"," ","m","e"," ","t","o"," ","c","o","n","t","i","n","u","e","?"," ","S","a","y"," ","y","e","s"," ","o","r"," ","n","o",".">>
    IN  IF missing THEN raise(st, "KeyError")
        ELSE speak(set_pending_confirmation(st, action, params, message), message)

\* the depth of recursive calls at which Python raises RecursionError
RecursionLimit == 4

RECURSIVE execute_command(_, _, _)
handle_repeat(st, params, depth) ==
    IF ~Has(params, "type") THEN raise(st, "KeyError")
    ELSE IF params.type = <<"r","e","p","e","a","t">>
    THEN IF get_last_command(st) # NoneDict
         THEN execute_command(speak(st, <<"R","e","p","e","a","t","i","n","g"," ","l","a","s","t"," ","c","o","m","m","a","n","d">>),
                              get_last_command(st), depth + 1)
         ELSE speak(st, <<"N","o"," ","p","r","e","v","i","o","u","s"," ","c","o","m","m","a","n","d"," ","t","o"," ","r","e","p","e","a","t">>)
    ELSE IF params.type = <<"u","n","d","o">>
    THEN IF get_previous_command(st, 2) # NoneDict
         THEN execute_command(speak(st, <<"E","x","e","c","u","t","i","n","g"," ","p","r","e","v","i","o","u","s"," ","c","o","m","m","a","n","d">>),
                              get_previous_command(st, 2), depth + 1)
         ELSE speak(st, <<"N","o"," ","p","r","e","v","i","o","u","s"," ","c","o","m","m","a","n","d"," ","f","o","u","n","d">>)
    ELSE st

\* the branch of _execute_command that runs the action
run_action(st, action, params, depth) ==
    CASE action = "time" -> speak(invoke(st, "get_time", NoParams), Reply("get_time"))
      [] action = "date" -> speak(invoke(st, "get_date", NoParams), Reply("get_date"))
      [] action = "weather" ->
           speak(invoke(st, "get_weather",
                        [city |-> IF Has(params, "city") THEN params.city ELSE None]),
                 Reply("get_weather"))
      [] action = "search" ->
           IF ~Has(params, "query") THEN raise(st, "KeyError")
           ELSE speak(invoke(st, "google_search", [query |-> params.query]),
                      Reply("google_search"))
      [] action = "wikipedia" ->
           IF ~Has(params, "query") THEN raise(st, "KeyError")
           ELSE speak(invoke(st, "get_wikipedia_summary", [query |-> params.query]),
                      Reply("get_wikipedia_summary"))
      [] action = "system_status" ->
           speak(invoke(st, "get_system_status",
                        [status_type |-> IF Has(params, "type") THEN params.type ELSE None]),
                 Reply("get_system_status"))
      [] action = "open_app" ->
           IF ~Has(params, "app") THEN raise(st, "KeyError")
           ELSE speak(invoke(st, "open_application", [app_name |-> params.app]),
                      Reply("open_application"))
      [] action = "alarm" -> set_alarm_from(st, params)
      [] action = "reminder" -> set_reminder(st, params)
      [] action = "voice_style" ->
           IF ~Has(params, "style") THEN raise(st, "KeyError")
           ELSE IF params.style \in VOICE_STYLES
           THEN speak(apply_voice_style(st, params.style),
                      <<"V","o","i","c","e"," ","c","h","a","n","g","e","d"," ","t","o"," ">> \o Fmt(params.style) \o <<" ","s","t","y","l","e">>)
           ELSE speak(st, <<"V","o","i","c","e"," ","s","t","y","l","e"," ">> \o Fmt(params.style) \o <<" ","n","o","t"," ","a","v","a","i","l","a","b","l","e">>)
      [] action = "volume" ->
           IF ~Has(params, "adjustment") THEN raise(st, "KeyError")
           ELSE LET s1 == adjust_volume(st, params.adjustment)
                IN  IF params.adjustment = <<"m","u","t","e">>
                    THEN speak(s1, <<"V","o","i","c","e"," ">>
                                   \o (IF s1.is_muted THEN <<"m","u","t","e","d">> ELSE <<"u","n","m","u","t","e","d">>))
                    ELSE speak(s1, <<"V","o","l","u","m","e"," ","a","d","j","u","s","t","e","d">>)
      [] action = "mode_switch" ->
           IF ~Has(params, "mode") THEN raise(st, "KeyError")
           ELSE switch_mode(st, params.mode)
      [] action = "help" -> show_help(st)
      [] action = "repeat" -> handle_repeat(st, params, depth)
      [] action = "exit" ->
           LET s1 == speak(st, <<"G","o","o","d","b","y","e","!"," ","S","h","u","t","t","i","n","g"," ","d","o","w","n",".">>)
           IN  IF s1.raised # NoError THEN s1 ELSE [s1 EXCEPT !.is_running = FALSE]
      [] action = "listening" ->
           IF ~Has(params, "mode") THEN raise(st, "KeyError")
           ELSE handle_listening_mode(st, params.mode)
      [] OTHER ->
           speak(st, <<"I"," ","d","i","d","n","'","t"," ","u","n","d","e","r","s","t","a","n","d"," ","t","h","a","t"," ","c","o","m","m","a","n","d","."," ","S","a","y"," ","'","h","e","l","p","'"," ","f","o","r"," ","a","v","a","i","l","a","b","l","e"," ","c","o","m","m","a","n","d","s",".">>)

\* _execute_command gating only the outermost dispatch: a command that
\* _handle_repeat dispatches again runs its handler directly
execute_command_ungated_redispatch(st, command, depth) ==
    IF st.raised # NoError THEN st
    ELSE IF depth > RecursionLimit THEN raise(st, "RecursionError")
    ELSE LET s1 == add_to_history(st, command)
         IN  IF depth = 1 /\ needs_confirmation(command.action)
                /\ get_pending_confirmation(s1) = NoneDict
             THEN request_confirmation(s1, command)
             ELSE run_action(s1, command.action, command.params, depth)

execute_command(st, command, depth) ==
    IF st.raised # NoError THEN st
    ELSE IF depth > RecursionLimit THEN raise(st, "RecursionError")
    ELSE LET s1 == add_to_history(st, command)
         IN  IF needs_confirmation(command.action)
                /\ get_pending_confirmation(s1) = NoneDict
             THEN request_confirmation(s1, command)
             ELSE run_action(s1, command.action, command.params, depth)

\* line 319: a non-empty response that contains yes, yeah or sure
affirmative(text) ==
    /\ text # None /\ text # <<>>
    /\ \/ Contains(text, <<"y","e","s">>) \/ Contains(text, <<"y","e","a","h">>) \/ Contains(text, <<"s","u","r","e">>)

\* _handle_pending_confirmation from the point where the response is in hand
process_response(st, text) ==
    IF affirmative(text)
    THEN IF confirmed_command(st) # NoneDict
         THEN execute_command(speak(confirm_action(st), <<"C","o","n","f","i","r","m","e","d">>),
                              confirmed_command(st), 1)
         ELSE confirm_action(st)
    ELSE speak(clear_pending_confirmation(st), <<"C","a","n","c","e","l","l","e","d">>)

\* the handler of line 86 ending the loop as the handler of line 81 does
catch_and_stop(st) ==
    IF st.raised = NoError THEN st
    ELSE [speak([st EXCEPT !.raised = NoError, !.error = st.raised],
                <<"I"," ","e","n","c","o","u","n","t","e","r","e","d"," ","a","n"," ","e","r","r","o","r","."," ","P","l","e","a","s","e"," ","t","r","y"," ","a","g","a","i","n",".">>)
            EXCEPT !.is_running = FALSE]

\* lines 86-88: the loop catches the exception and reports it
catch(st) ==
    IF st.raised = NoError THEN st
    ELSE speak([st EXCEPT !.raised = NoError, !.error = st.raised],
               <<"I"," ","e","n","c","o","u","n","t","e","r","e","d"," ","a","n"," ","e","r","r","o","r","."," ","P","l","e","a","s","e"," ","t","r","y"," ","a","g","a","i","n",".">>)

\* what the input devices deliver
heard(recognized) == lower(recognized)
typed(line) == IF strip(line) # <<>> THEN lower(strip(line)) ELSE None

-----------------------------------------------------------------------------
(* Inputs *)

\* what the recognizer returns, or the user types, in one acquisition
Utterances == {
    <<"o","p","e","n"," ","b","r","o","w","s","e","r">>,
    <<"y","e","s">>,
    <<"n","o">>,
    <<"n","o","t"," ","s","u","r","e">>,
    <<"y","e","s","t","e","r","d","a","y">>,
    <<"w","h","a","t"," ","t","i","m","e"," ","i","s"," ","i","t">>,
    <<"r","e","m","i","n","d"," ","m","e"," ","5"," ","m","i","n","u","t","e","s">>,
    <<"r","e","m","i","n","d"," ","m","e"," ","t","o"," ","c","a","l","l"," ","m","o","m"," ","i","n"," ","1","0"," ","m","i","n","u","t","e","s">>,
    <<"m","u","t","e">>,
    <<"s","w","i","t","c","h"," ","t","o"," ","v","o","i","c","e"," ","m","o","d","e">>,
    <<"e","x","i","t">>
}

\* the lines input() can return: an utterance, an empty line, a line with
\* blanks and capitals
Lines == Utterances \cup {<<>>, <<" ","Y","e","s"," ">>}

\* the errors listen() reports (line 110's max_retries is never returned: the
\* retry loop returns from inside its handlers)
ListenErrors == {<<"t","i","m","e","o","u","t">>, <<"u","n","k","n","o","w","n">>, <<"n","e","t","w","o","r","k","_","e","r","r","o","r",":"," ","d","o","w","n">>, <<"e","r","r","o","r",":"," ","d","e","v","i","c","e">>}

\* processor.process on the texts the loop can acquire, computed once
resolved ==
    [text \in {heard(u) : u \in Utterances} \cup ({typed(l) : l \in Lines} \ {None})
        |-> process(text)]

-----------------------------------------------------------------------------
(* The state of the program as a record, and back *)

State ==
    [command_history |-> command_history,
     pending_confirmation |-> pending_confirmation,
     alarm_threads |-> alarm_threads,
     current_mode |-> current_mode,
     is_running |-> is_running,
     continuous_listening |-> continuous_listening,
     is_muted |-> is_muted,
     base_volume |-> base_volume,
     current_voice_style |-> current_voice_style,
     invoked |-> <<>>, spoken |-> <<>>, logged |-> <<>>, appended |-> <<>>,
     pending_writes |-> <<>>, raised |-> NoError, error |-> NoError]

Commit(st, op, text, command) ==
    /\ command_history' = st.command_history
    /\ pending_confirmation' = st.pending_confirmation
    /\ alarm_threads' = st.alarm_threads
    /\ current_mode' = st.current_mode
    /\ is_running' = st.is_running
    /\ continuous_listening' = st.continuous_listening
    /\ is_muted' = st.is_muted
    /\ base_volume' = st.base_volume
    /\ current_voice_style' = st.current_voice_style
    /\ step' = [op |-> op, text |-> text, command |-> command,
                invoked |-> st.invoked, spoken |-> st.spoken, logged |-> st.logged,
                appended |-> st.appended, pending_writes |-> st.pending_writes,
                error |-> st.error]

NoStep ==
    [op |-> "__init__", text |-> None, command |-> NoneDict,
     invoked |-> <<>>, spoken |-> <<>>, logged |-> <<>>, appended |-> <<>>,
     pending_writes |-> <<>>, error |-> NoError]

\* Jarvis.__init__ with the constructors of its components
Constructed ==
    /\ command_history = <<>>
    /\ pending_confirmation = NoneDict
    /\ alarm_threads = <<>>
    /\ current_mode = MODE_VOICE
    /\ is_running = FALSE
    /\ continuous_listening = FALSE
    /\ is_muted = FALSE
    /\ base_volume = 9
    /\ current_voice_style = DEFAULT_VOICE_STYLE
    /\ pc = "constructed"
    /\ inserted = <<>>

Init == Constructed /\ step = NoStep

-----------------------------------------------------------------------------
(* jarvis.py: start and one action per way an iteration of run can go *)

Start ==
    /\ pc = "constructed"
    /\ pc' = "running"
    /\ Commit(speak(speak([State EXCEPT !.is_running = TRUE],
                          <<"H","e","l","l","o","!"," ","I"," ","a","m"," ","J","a","r","v","i","s",","," ","y","o","u","r"," ","A","I"," ","a","s","s","i","s","t","a","n","t","."," ","I","'","m"," ","c","u","r","r","e","n","t","l","y"," ","i","n"," ","v","o","i","c","e"," ","m","o","d","e",".">>),
                    <<"S","a","y"," ","'","h","e","l","p","'"," ","t","o"," ","k","n","o","w"," ","w","h","a","t"," ","I"," ","c","a","n"," ","d","o",".">>),
              "start", None, NoneDict)
    /\ UNCHANGED inserted

\* the loop of line 50 as "while True"
Looping_forever == pc = "running"

Looping == pc = "running" /\ is_running

\* the loop without the check of lines 52-55
Idle_unchecked == Looping

Idle == Looping /\ get_pending_confirmation(State) = NoneDict

AwaitingConfirmation == Looping /\ get_pending_confirmation(State) # NoneDict

\* lines 72-79, then the handlers of lines 86-88
dispatch_text(st, text) ==
    catch(execute_command(log_command(st, text, st.current_mode), resolved[text], 1))

IdleVoiceHeard(u) ==
    /\ Idle /\ current_mode = MODE_VOICE
    /\ Commit(dispatch_text(State, heard(u)), "idle_heard", heard(u), resolved[heard(u)])
    /\ UNCHANGED <<pc, inserted>>

IdleVoiceFailed(error) ==
    /\ Idle /\ current_mode = MODE_VOICE
    /\ Commit(catch(handle_speech_error(State, error)), "idle_failed", None, NoneDict)
    /\ UNCHANGED <<pc, inserted>>

IdleManualLine(line) ==
    /\ Idle /\ current_mode # MODE_VOICE
    /\ LET prompted == speak(State, <<"T","y","p","e"," ","y","o","u","r"," ","c","o","m","m","a","n","d",":">>)
       IN  IF typed(line) = None
           THEN Commit(prompted, "idle_empty", None, NoneDict)
           ELSE Commit(dispatch_text(prompted, typed(line)), "idle_typed", typed(line),
                       resolved[typed(line)])
    /\ UNCHANGED <<pc, inserted>>

ConfirmVoiceHeard(u) ==
    /\ AwaitingConfirmation /\ current_mode = MODE_VOICE
    /\ Commit(catch(process_response(State, heard(u))), "confirm_heard", heard(u),
              confirmed_command(State))
    /\ UNCHANGED <<pc, inserted>>

\* a failed listen that gives the confirmation up
ConfirmVoiceFailed_cancelling(error) ==
    /\ AwaitingConfirmation /\ current_mode = MODE_VOICE
    /\ Commit(catch(clear_pending_confirmation(
                        speak(State, <<"I"," ","d","i","d","n","'","t"," ","h","e","a","r"," ","y","o","u","."," ","P","l","e","a","s","e"," ","s","a","y"," ","y","e","s"," ","o","r"," ","n","o",".">>))),
              "confirm_failed", None, confirmed_command(State))
    /\ UNCHANGED <<pc, inserted>>

ConfirmVoiceFailed(error) ==
    /\ AwaitingConfirmation /\ current_mode = MODE_VOICE
    /\ Commit(catch(speak(State, <<"I"," ","d","i","d","n","'","t"," ","h","e","a","r"," ","y","o","u","."," ","P","l","e","a","s","e"," ","s","a","y"," ","y","e","s"," ","o","r"," ","n","o",".">>)),
              "confirm_failed", None, confirmed_command(State))
    /\ UNCHANGED <<pc, inserted>>

ConfirmManualLine(line) ==
    /\ AwaitingConfirmation /\ current_mode # MODE_VOICE
    /\ Commit(catch(process_response(speak(State, <<"T","y","p","e"," ","y","e","s"," ","o","r"," ","n","o",":">>), typed(line))),
              "confirm_typed", typed(line), confirmed_command(State))
    /\ UNCHANGED <<pc, inserted>>

\* lines 81-84: a KeyboardInterrupt while the loop waits for input
KeyboardInterrupt ==
    /\ Looping
    /\ pc' = "stopped"
    /\ Commit([speak(State, <<"S","h","u","t","t","i","n","g"," ","d","o","w","n","."," ","G","o","o","d","b","y","e","!">>) EXCEPT !.is_running = FALSE],
              "interrupt", None, NoneDict)
    /\ UNCHANGED inserted

\* line 50: the loop ends when the run flag is clear
RunReturns ==
    /\ pc = "running" /\ ~is_running
    /\ pc' = "stopped"
    /\ Commit(State, "return", None, NoneDict)
    /\ UNCHANGED inserted

Next ==
    \/ Start
    \/ \E u \in Utterances : IdleVoiceHeard(u)
    \/ \E e \in ListenErrors : IdleVoiceFailed(e)
    \/ \E l \in Lines : IdleManualLine(l)
    \/ \E u \in Utterances : ConfirmVoiceHeard(u)
    \/ \E e \in ListenErrors : ConfirmVoiceFailed(e)
    \/ \E l \in Lines : ConfirmManualLine(l)
    \/ KeyboardInterrupt
    \/ RunReturns

Spec == Init /\ [][Next]_vars

-----------------------------------------------------------------------------
(* core/session_manager.py called directly, one action per operation *)

MaxInserts == 5

\* commands as the resolver produces them
SessionCommands ==
    {process(u) : u \in {<<"w","h","a","t"," ","t","i","m","e"," ","i","s"," ","i","t">>, <<"o","p","e","n"," ","b","r","o","w","s","e","r">>, <<"r","e","m","i","n","d"," ","m","e"," ","5"," ","m","i","n","u","t","e","s">>}}

AddToHistory(command) ==
    /\ Len(inserted) < MaxInserts
    /\ inserted' = Append(inserted, command)
    /\ Commit(add_to_history(State, command), "add_to_history", None, command)
    /\ UNCHANGED pc

GetLastCommand ==
    /\ Commit(State, "get_last_command", None, get_last_command(State))
    /\ UNCHANGED <<pc, inserted>>

GetPreviousCommand(offset) ==
    /\ Commit(State, "get_previous_command", None, get_previous_command(State, offset))
    /\ UNCHANGED <<pc, inserted>>

SetPendingConfirmation(command) ==
    /\ Commit(set_pending_confirmation(State, command.action, command.params,
                                       <<"D","o"," ","y","o","u"," ","w","a","n","t"," ","m","e"," ","t","o"," ","c","o","n","t","i","n","u","e","?"," ","S","a","y"," ","y","e","s"," ","o","r"," ","n","o",".">>),
              "set_pending_confirmation", None, command)
    /\ UNCHANGED <<pc, inserted>>

ClearPendingConfirmation ==
    /\ Commit(clear_pending_confirmation(State), "clear_pending_confirmation", None, NoneDict)
    /\ UNCHANGED <<pc, inserted>>

ConfirmAction ==
    /\ Commit(confirm_action(State), "confirm_action", None, confirmed_command(State))
    /\ UNCHANGED <<pc, inserted>>

NextSession ==
    \/ \E c \in SessionCommands : AddToHistory(c)
    \/ GetLastCommand
    \/ \E offset \in 1..2 : GetPreviousCommand(offset)
    \/ \E c \in SessionCommands : SetPendingConfirmation(c)
    \/ ClearPendingConfirmation
    \/ ConfirmAction

SpecSession == Init /\ [][NextSession]_vars

-----------------------------------------------------------------------------
(* core/command_processor.py called directly: process on a bounded set of  *)
(* raw texts                                                               *)

MaxWords == 2

Words == {<<"s","t","a","r","t">>, <<"s","t","o","p">>, <<"l","i","s","t","e","n","i","n","g">>, <<"d","a","y">>, <<"c","l","o","c","k">>,
          <<"f","e","a","t","u","r","e","s">>, <<"r","a","i","n">>, <<"h","o","t">>, <<"t","h","e">>, <<"W","h","o">>}

RECURSIVE Join(_)
\* the words of ws with one blank between them
Join(ws) ==
    IF Len(ws) = 1 THEN ws[1] ELSE ws[1] \o <<" ">> \o Join(Tail(ws))

RawTexts ==
    {None, <<>>, <<" "," "," ">>, <<"t","h","e"," ","a"," ","a","n">>, <<"c","o","u","l","d"," ","a"," ","y","o","u">>,
     <<"w","h","a","t"," ","t","i","m","e"," ","i","s"," ","i","t">>, <<"w","h","a","t","'","s"," ","t","o","d","a","y">>, <<"P","l","e","a","s","e"," ","O","P","E","N"," ","t","h","e"," ","B","r","o","w","s","e","r","!">>,
     <<"w","e","a","t","h","e","r"," ","i","n"," ","l","a","g","o","s">>, <<"s","e","a","r","c","h"," ","f","o","r"," ","c","a","t","s">>,
     <<"r","e","m","i","n","d"," ","m","e"," ","t","o"," ","c","a","l","l"," ","m","o","m"," ","i","n"," ","1","0"," ","m","i","n","u","t","e","s">>, <<"o","k","a","y",","," ","s","o",".",".","."," ","u","m","?">>,
     <<"v","o","l","u","m","e"," ","u","p">>, <<"c","h","a","n","g","e"," ","v","o","i","c","e">>, <<"c","p","u"," ","s","t","a","t","u","s">>, <<"w","h","o"," ","i","s"," ","a","d","a">>,
     <<"w","i","k","i">>, <<"g","o","o","g","l","e">>, <<"w","o","u","l","d"," ","t","h","e"," ","y","o","u">>,
     <<"t","i","m","e"," ","c","l","o","c","k">>, <<"d","a","t","e"," ","d","a","y">>, <<"w","h","o"," ","w","h","a","t">>, <<"w","h","a","t"," ","w","h","o"," ","w","h","e","n">>}
    \cup {Join(ws) : ws \in UNION {[1..n -> Words] : n \in 1..MaxWords}}

InitResolve ==
    /\ Constructed
    /\ \E raw \in RawTexts : step = [NoStep EXCEPT !.op = "input", !.text = raw]

Resolve ==
    /\ step.op = "input"
    /\ step' = [step EXCEPT !.op = "process", !.command = process(step.text)]
    /\ UNCHANGED <<command_history, pending_confirmation, alarm_threads, current_mode,
                   is_running, continuous_listening, is_muted, base_volume,
                   current_voice_style, pc, inserted>>

NextResolve == Resolve

SpecResolve == InitResolve /\ [][NextResolve]_vars


-----------------------------------------------------------------------------
(* SessionManager.calculate_seconds called directly on bounded values and  *)
(* units                                                                   *)

MaxValue == 9

Values == 0..MaxValue \cup {30}

Units == {<<"s","e","c","o","n","d">>, <<"s","e","c","o","n","d","s">>, <<"m","i","n","u","t","e">>, <<"m","i","n","u","t","e","s">>, <<"h","o","u","r">>, <<"h","o","u","r","s">>,
          <<"S","e","c","o","n","d","s">>, <<"M","i","n","u","t","e","s">>, <<"H","O","U","R">>, <<"h","o","u","r","l","y">>, <<"s","e","c">>, <<"m","i","n">>,
          <<"d","a","y">>, <<" ","m","i","n","u","t","e","s">>, <<>>}

InitSeconds ==
    /\ Constructed
    /\ \E value \in Values, unit \in Units :
          step = [NoStep EXCEPT !.op = "input",
                                !.command = [value |-> value, unit |-> unit]]

CalculateSeconds ==
    /\ step.op = "input"
    /\ step' = [step EXCEPT
                  !.op = "calculate_seconds",
                  !.command = [value |-> step.command.value,
                               unit |-> step.command.unit,
                               seconds |-> calculate_seconds(step.command.value,
                                                             step.command.unit)]]
    /\ UNCHANGED <<command_history, pending_confirmation, alarm_threads, current_mode,
                   is_running, continuous_listening, is_muted, base_volume,
                   current_voice_style, pc, inserted>>

NextSeconds == CalculateSeconds

SpecSeconds == InitSeconds /\ [][NextSeconds]_vars

-----------------------------------------------------------------------------
(* Jarvis._execute_command called by the loop on commands of any shape,    *)
(* those of _handle_repeat included, which no catalog intent produces      *)

RepeatCommand == [action |-> "repeat", params |-> [type |-> <<"r","e","p","e","a","t">>]]
UndoCommand == [action |-> "repeat", params |-> [type |-> <<"u","n","d","o">>]]

DispatchCommands ==
    {process(u) : u \in {<<"w","h","a","t"," ","t","i","m","e"," ","i","s"," ","i","t">>, <<"w","h","a","t","'","s"," ","t","o","d","a","y">>, <<"o","p","e","n"," ","b","r","o","w","s","e","r">>,
                         <<"r","e","m","i","n","d"," ","m","e"," ","5"," ","m","i","n","u","t","e","s">>,
                         <<"r","e","m","i","n","d"," ","m","e"," ","t","o"," ","c","a","l","l"," ","m","o","m"," ","i","n"," ","1","0"," ","m","i","n","u","t","e","s">>}}
    \cup {RepeatCommand, UndoCommand}

Responses == {<<"y","e","s">>, <<"n","o">>}

\* lines 79 and 86-88 of run(): one dispatch in Idle
Dispatch(command) ==
    /\ Idle
    /\ Commit(catch(execute_command(State, command, 1)), "dispatch", None, command)
    /\ UNCHANGED <<pc, inserted>>

NextDispatch ==
    \/ Start
    \/ \E c \in DispatchCommands : Dispatch(c)
    \/ \E u \in Responses : ConfirmVoiceHeard(u)

SpecDispatch == Init /\ [][NextDispatch]_vars

-----------------------------------------------------------------------------
(* Timers: Jarvis._set_alarm and Jarvis._set_reminder called by the loop   *)
(* as the dispatch of a confirmed command calls them, the threads that     *)
(* SessionManager.set_alarm starts, and the dialogue loop between them     *)

MaxTimers == 2

AlarmParams == {[value |-> 5, unit |-> <<"m","i","n","u","t","e","s">>]}

ReminderParams == {[value |-> 1, unit |-> <<"h","o","u","r">>, message |-> <<"c","a","l","l"," ","m","o","m">>]}

TimerUtterances == {<<"w","h","a","t"," ","t","i","m","e"," ","i","s"," ","i","t">>, <<"o","p","e","n"," ","b","r","o","w","s","e","r">>, <<"y","e","s">>, <<"e","x","i","t">>}

SetAlarm(params) ==
    /\ Idle
    /\ Len(alarm_threads) < MaxTimers
    /\ Commit(catch(set_alarm_from(State, params)), "_set_alarm", None,
              [action |-> "alarm", params |-> params])
    /\ UNCHANGED <<pc, inserted>>

SetReminder(params) ==
    /\ Idle
    /\ Len(alarm_threads) < MaxTimers
    /\ Commit(catch(set_reminder(State, params)), "_set_reminder", None,
              [action |-> "reminder", params |-> params])
    /\ UNCHANGED <<pc, inserted>>

\* a callback that reports through the dispatcher instead of speaking
TimerFires_dispatching(k) ==
    /\ pc # "stopped"
    /\ k \in DOMAIN alarm_threads
    /\ ~alarm_threads[k].fired
    /\ Commit(catch(execute_command([State EXCEPT !.alarm_threads[k].fired = TRUE],
                                    [action |-> "help", params |-> NoParams], 1)),
              "alarm_thread", None, NoneDict)
    /\ UNCHANGED <<pc, inserted>>

\* alarm_thread of thread k: the sleep is over and the callback is called. The
\* thread is a daemon: it ends with the process, that is when run() has
\* returned to main(). Delays are not compared: any order of firings is
\* allowed.
TimerFires(k) ==
    /\ pc # "stopped"
    /\ k \in DOMAIN alarm_threads
    /\ ~alarm_threads[k].fired
    /\ Commit(speak([State EXCEPT !.alarm_threads[k].fired = TRUE],
                    alarm_threads[k].message),
              "alarm_thread", None, NoneDict)
    /\ UNCHANGED <<pc, inserted>>

NextTimers ==
    \/ Start
    \/ \E p \in AlarmParams : SetAlarm(p)
    \/ \E p \in ReminderParams : SetReminder(p)
    \/ \E k \in 1..MaxTimers : TimerFires(k)
    \/ \E u \in TimerUtterances : IdleVoiceHeard(u)
    \/ \E u \in TimerUtterances : ConfirmVoiceHeard(u)
    \/ KeyboardInterrupt
    \/ RunReturns

SpecTimers == Init /\ [][NextTimers]_vars

\* a started thread is scheduled as long as the process lives; the loop waits
\* for the user and is given no fairness
SpecTimersFair == SpecTimers /\ \A k \in 1..MaxTimers : WF_vars(TimerFires(k))

-----------------------------------------------------------------------------
(* SpeechEngine.listen, one step per pass through its retry loop           *)

\* what recognize_google can return
RecognizedTexts == Utterances \cup {<<"O","p","e","n"," ","B","r","o","w","s","e","r">>, <<"Y","E","S">>}

\* how one pass through the try block of lines 75-89 can end
Outcomes ==
    {[kind |-> "recognized", text |-> t] : t \in RecognizedTexts}
    \cup {[kind |-> "WaitTimeoutError", text |-> None],
          [kind |-> "UnknownValueError", text |-> None],
          [kind |-> "RequestError", text |-> <<"d","o","w","n">>],
          [kind |-> "RequestError", text |-> <<"q","u","o","t","a">>],
          [kind |-> "Exception", text |-> <<"d","e","v","i","c","e">>],
          [kind |-> "Exception", text |-> <<"n","o"," ","i","n","p","u","t">>]}

\* a call of listen at line 72: retries, the passes made so far, and the
\* tuple it returns once it has returned
ListenCall ==
    [retries |-> 0, attempts |-> <<>>, returned |-> FALSE,
     success |-> FALSE, text |-> None, error |-> None]

listen_return(l, success, text, error) ==
    [l EXCEPT !.returned = TRUE, !.success = success, !.text = text, !.error = error]

\* the retry loop with timeouts left out of the count
listen_iteration_uncounted(l, outcome) ==
    IF ~(l.retries < MAX_RECOGNITION_RETRIES)
    THEN listen_return(l, FALSE, None, <<"m","a","x","_","r","e","t","r","i","e","s">>)
    ELSE LET tried == [l EXCEPT !.attempts = Append(@, outcome.kind)]
             again == [tried EXCEPT !.retries = @ + 1]
         IN  CASE outcome.kind = "recognized" ->
                    listen_return(tried, TRUE, lower(outcome.text), None)
               [] outcome.kind = "WaitTimeoutError" -> tried
               [] outcome.kind = "UnknownValueError" ->
                    IF again.retries < MAX_RECOGNITION_RETRIES THEN again
                    ELSE listen_return(again, FALSE, None, <<"u","n","k","n","o","w","n">>)
               [] outcome.kind = "RequestError" ->
                    listen_return(tried, FALSE, None, <<"n","e","t","w","o","r","k","_","e","r","r","o","r",":"," ">> \o outcome.text)
               [] OTHER ->
                    listen_return(tried, FALSE, None, <<"e","r","r","o","r",":"," ">> \o outcome.text)

\* lines 74-110: the test of the while loop, then one pass through its body
listen_iteration(l, outcome) ==
    IF ~(l.retries < MAX_RECOGNITION_RETRIES)
    THEN listen_return(l, FALSE, None, <<"m","a","x","_","r","e","t","r","i","e","s">>)
    ELSE LET tried == [l EXCEPT !.attempts = Append(@, outcome.kind)]
             again == [tried EXCEPT !.retries = @ + 1]
         IN  CASE outcome.kind = "recognized" ->
                    listen_return(tried, TRUE, lower(outcome.text), None)
               [] outcome.kind = "WaitTimeoutError" ->
                    IF again.retries < MAX_RECOGNITION_RETRIES THEN again
                    ELSE listen_return(again, FALSE, None, <<"t","i","m","e","o","u","t">>)
               [] outcome.kind = "UnknownValueError" ->
                    IF again.retries < MAX_RECOGNITION_RETRIES THEN again
                    ELSE listen_return(again, FALSE, None, <<"u","n","k","n","o","w","n">>)
               [] outcome.kind = "RequestError" ->
                    listen_return(tried, FALSE, None, <<"n","e","t","w","o","r","k","_","e","r","r","o","r",":"," ">> \o outcome.text)
               [] OTHER ->
                    listen_return(tried, FALSE, None, <<"e","r","r","o","r",":"," ">> \o outcome.text)

InitListen ==
    /\ Constructed
    /\ step = [NoStep EXCEPT !.op = "listen", !.command = ListenCall]

ListenIteration(outcome) ==
    /\ step.op = "listen"
    /\ ~step.command.returned
    /\ step' = [step EXCEPT !.command = listen_iteration(step.command, outcome)]
    /\ UNCHANGED <<command_history, pending_confirmation, alarm_threads, current_mode,
                   is_running, continuous_listening, is_muted, base_volume,
                   current_voice_style, pc, inserted>>

NextListen == \E outcome \in Outcomes : ListenIteration(outcome)

SpecListen == InitListen /\ [][NextListen]_vars
-----------------------------------------------------------------------------
(* Properties of the confirmation flow (specification Spec) *)

SensitiveActions == {"open_app", "alarm", "reminder"}

\* the step dispatched a command the loop had just resolved
IdleDispatch == step.op \in {"idle_heard", "idle_typed"}

\* the step handled a response acquired while a confirmation was pending;
\* step.command is the command that was pending
ConfirmResponse == step.op \in {"confirm_heard", "confirm_typed"}

\* the external call the handler of a sensitive action makes
HandlerOf(action) ==
    IF action = "open_app" THEN "open_application" ELSE "threading.Thread.start"

Said(text) == \E k \in DOMAIN step.spoken : step.spoken[k].text = text

\* a response one of whose words is yes, yeah or sure
SaysYes(text) ==
    /\ text # None
    /\ \E w \in Range(split(text)) : w \in {<<"y","e","s">>, <<"y","e","a","h">>, <<"s","u","r","e">>}

\* C1: a dispatch of a sensitive command while no confirmation is pending
\* leaves exactly that command's action and params in the pending slot and
\* invokes no handler.
C1_SensitiveDispatchIsHeld ==
    (IdleDispatch /\ step.command.action \in SensitiveActions)
        => /\ pending_confirmation # NoneDict
           /\ pending_confirmation.action = step.command.action
           /\ pending_confirmation.params = step.command.params
           /\ step.invoked = <<>>

\* C2: an affirmative response to a pending confirmation invokes the handler
\* of the pending command exactly once.
C2_AffirmativeRunsHandlerOnce ==
    (ConfirmResponse /\ SaysYes(step.text))
        => /\ Len(step.invoked) = 1
           /\ step.invoked[1].fn = HandlerOf(step.command.action)

\* C3: when the step that handled an affirmative response ends, the pending
\* slot is absent, so the next iteration acquires a new command.
C3_AffirmativeReturnsToIdle ==
    (ConfirmResponse /\ SaysYes(step.text)) => pending_confirmation = NoneDict

\* C4: a response that is not affirmative clears the pending slot, invokes no
\* handler, appends nothing to the history, says "Cancelled" and leaves the
\* loop running with nothing pending.
C4_NonAffirmativeCancels ==
    (ConfirmResponse /\ ~SaysYes(step.text))
        => /\ pending_confirmation = NoneDict
           /\ step.invoked = <<>>
           /\ step.appended = <<>>
           /\ Said(<<"C","a","n","c","e","l","l","e","d">>)
           /\ is_running

\* C6: every write of the pending slot finds the slot absent and stores a
\* sensitive action.
C6_PendingWrittenOnlyWhenAbsentAndSensitive ==
    \A k \in DOMAIN step.pending_writes :
        /\ step.pending_writes[k].was = NoneDict
        /\ step.pending_writes[k].action \in SensitiveActions

\* the slot was written again by the dispatch of the confirmed
\* command, after confirm_action had emptied it
C6_Witness ==
    /\ ConfirmResponse
    /\ Len(step.pending_writes) = 1
    /\ step.pending_writes[1].action = "open_app"
    /\ pending_confirmation # NoneDict

-----------------------------------------------------------------------------
(* Properties of the session state (specification SpecSession) *)

\* the commands the history holds, oldest first
HistoryCommands == [i \in DOMAIN command_history |-> command_history[i].command]

\* C5: the history holds at most MEMORY_SIZE entries: the last
\* min(n, MEMORY_SIZE) of the n commands inserted, in insertion order.
C5_HistoryIsLastInserted ==
    LET n == Len(inserted)
        kept == IF n < MEMORY_SIZE THEN n ELSE MEMORY_SIZE
    IN  /\ Len(command_history) <= MEMORY_SIZE
        /\ HistoryCommands = SubSeq(inserted, n - kept + 1, n)

\* MEMORY_SIZE + 2 insertions, the first two of them evicted and different
\* from what has been kept in their place
C5_Witness ==
    /\ Len(inserted) = MEMORY_SIZE + 2
    /\ Len(command_history) = MEMORY_SIZE
    /\ inserted[1] # inserted[MEMORY_SIZE + 1]
    /\ HistoryCommands = SubSeq(inserted, 3, MEMORY_SIZE + 2)

\* C7: confirm_action returns the pending action and params and leaves the
\* slot absent; with nothing pending it returns None and changes nothing.
\* The history is the same before and after.
C7_ConfirmActionReadsAndClears ==
    [][step'.op = "confirm_action"
         => /\ command_history' = command_history
            /\ IF pending_confirmation # NoneDict
               THEN /\ step'.command = [action |-> pending_confirmation.action,
                                        params |-> pending_confirmation.params]
                    /\ pending_confirmation' = NoneDict
               ELSE /\ step'.command = NoneDict
                    /\ pending_confirmation' = NoneDict
                    /\ alarm_threads' = alarm_threads]_vars

\* confirm_action has returned the reminder that was pending
C7_Witness ==
    /\ step.op = "confirm_action"
    /\ step.command # NoneDict
    /\ step.command.action = "reminder"
    /\ pending_confirmation = NoneDict
    /\ command_history # <<>>

-----------------------------------------------------------------------------
(* Properties of the resolver (specification SpecResolve) *)

\* process has returned the command for the raw text step.text
Resolved == step.op = "process"

\* the position in the catalog of the first intent one of whose patterns is
\* found in text, 0 if there is none
FirstPatternIntent(text) ==
    LET hits == {k \in DOMAIN intent_definitions :
                    \E p \in DOMAIN intent_definitions[k].patterns :
                        Search(intent_definitions[k].patterns[p], text).found}
    IN  IF hits = {} THEN 0 ELSE Min(hits)

\* |tokens /\ keywords| and |keywords| of the k-th intent
Overlap(toks, k) ==
    Cardinality({w \in Range(toks) : w \in Range(intent_definitions[k].keywords)})
Keywords(k) ==
    IF intent_definitions[k].keywords = <<>> THEN 1
    ELSE Cardinality(Range(intent_definitions[k].keywords))

\* the earliest intent in the catalog whose score is the maximum
BestOverlapIntent(toks) ==
    CHOOSE k \in DOMAIN intent_definitions :
        \A j \in DOMAIN intent_definitions :
            /\ Overlap(toks, k) * Keywords(j) >= Overlap(toks, j) * Keywords(k)
            /\ j < k => Overlap(toks, k) * Keywords(j) > Overlap(toks, j) * Keywords(k)

\* C8: for every raw text, None and the empty text included, process returns
\* a command, never None, whose action is the name of an intent of the
\* catalog or "unknown".
C8_ResolveIsTotal ==
    Resolved => /\ step.command # NoneDict
                /\ step.command.action \in IntentNames \cup {"unknown"}
                /\ DOMAIN step.command = {"action", "params"}

\* None, the empty text and a text of fillers only have been resolved to
\* "unknown" (the three are reached in different behaviours)
C8_Witness ==
    /\ Resolved
    /\ step.text \in {None, <<>>, <<"t","h","e"," ","a"," ","a","n">>}
    /\ step.command.action = "unknown"

\* C9: if a pattern of some intent is found in the normalized text of a
\* non-empty input, process returns the first such intent in catalog order.
C9_PatternPriority ==
    (Resolved /\ step.text # None /\ step.text # <<>>)
        => LET first == FirstPatternIntent(normalize(step.text))
           IN  first # 0 => step.command.action = intent_definitions[first].name

\* a pattern decided against the keyword overlap: another intent has the
\* best score, and it is at least 0.25
C9_Witness ==
    /\ Resolved /\ step.text # None /\ step.text # <<>>
    /\ LET text == normalize(step.text)
           first == FirstPatternIntent(text)
           best == BestOverlapIntent(tokens(text))
       IN  /\ first # 0 /\ first # best
           /\ 4 * Overlap(tokens(text), best) >= Keywords(best)
           /\ step.command.action = intent_definitions[first].name

\* C10: if no pattern is found, process returns the intent with the maximum
\* keyword overlap, the earliest one among equals, if and only if that
\* maximum is at least 0.25.
C10_OverlapPass ==
    (Resolved /\ step.text # None /\ step.text # <<>>)
        => LET text == normalize(step.text)
               best == BestOverlapIntent(tokens(text))
           IN  FirstPatternIntent(text) = 0
                   => (step.command.action = intent_definitions[best].name
                         <=> 4 * Overlap(tokens(text), best) >= Keywords(best))

\* two intents share the maximum, which is at least 0.25, and the earlier
\* one has been returned
C10_Witness ==
    /\ Resolved /\ step.text # None /\ step.text # <<>>
    /\ LET text == normalize(step.text)
           best == BestOverlapIntent(tokens(text))
       IN  /\ FirstPatternIntent(text) = 0
           /\ 4 * Overlap(tokens(text), best) >= Keywords(best)
           /\ \E j \in DOMAIN intent_definitions :
                 /\ j > best
                 /\ Overlap(tokens(text), j) * Keywords(best)
                        = Overlap(tokens(text), best) * Keywords(j)
           /\ step.command.action = intent_definitions[best].name

-----------------------------------------------------------------------------
(* Further properties of the resolver (specification SpecResolve) *)

\* the first intent, in catalog order, whose first two keywords are all
\* among toks; 0 if there is none
StrictFallbackIntent(toks) ==
    LET hits == {k \in DOMAIN intent_definitions :
                    /\ intent_definitions[k].keywords # <<>>
                    /\ \A j \in 1..2 :
                          j <= Len(intent_definitions[k].keywords)
                              => intent_definitions[k].keywords[j] \in Range(toks)}
    IN  IF hits = {} THEN 0 ELSE Min(hits)

\* no pass of the resolver settles on an intent for text
NothingResolves(text) ==
    /\ FirstPatternIntent(text) = 0
    /\ 4 * Overlap(tokens(text), BestOverlapIntent(tokens(text)))
           < Keywords(BestOverlapIntent(tokens(text)))
    /\ StrictFallbackIntent(tokens(text)) = 0

\* C11: process returns "unknown" exactly when the raw text is None or empty,
\* or no pattern is found, every overlap score is below 0.25 and the strict
\* fallback finds no intent; the params of "unknown" are the raw text, as
\* given.
C11_UnknownKeepsRawText ==
    Resolved
        => /\ step.command.action = "unknown"
                <=> (step.text \in {None, <<>>} \/ NothingResolves(normalize(step.text)))
           /\ step.command.action = "unknown" => step.command.params = [text |-> step.text]

\* a text that differs from its normalization has been resolved to "unknown"
C11_Witness ==
    /\ Resolved
    /\ step.text \notin {None, <<>>}
    /\ normalize(step.text) # step.text
    /\ normalize(step.text) # <<>>
    /\ step.command = [action |-> "unknown", params |-> [text |-> step.text]]

\* the parameter of each intent that takes one, and the values it may hold
ParamKey(action) ==
    CASE action = "weather" -> "city"
      [] action \in {"search", "wikipedia"} -> "query"
      [] action = "open_app" -> "app"
      [] action = "volume" -> "adjustment"
      [] action = "voice_style" -> "style"
      [] action = "system_status" -> "type"
      [] action = "listening" -> "mode"

ParamValueOk(action, v) ==
    CASE action = "weather" -> TRUE
      [] action \in {"search", "wikipedia", "open_app"} -> v # None
      [] action = "volume" -> v \in {<<"l","o","u","d","e","r">>, <<"s","o","f","t","e","r">>, <<"m","u","t","e">>, None}
      [] action = "voice_style" -> v \in {<<"f","o","r","m","a","l">>, <<"c","a","s","u","a","l">>, <<"r","o","b","o","t","i","c">>, None}
      [] action = "system_status" ->
           v \in {<<"c","p","u">>, <<"b","a","t","t","e","r","y">>, <<"n","e","t","w","o","r","k">>, <<"a","l","l">>}
      [] action = "listening" -> v \in {<<"s","t","a","r","t">>, <<"s","t","o","p">>, None}

ParamIntents ==
    {"weather", "search", "wikipedia", "open_app", "volume", "voice_style",
     "system_status", "listening"}

\* C12: for every input resolved to weather, search, wikipedia, open_app,
\* volume, voice_style, system_status or listening the params hold that
\* intent's key, with an extracted value or the default of the intent.
C12_ParamsAreKeyComplete ==
    (Resolved /\ step.command.action \in ParamIntents)
        => /\ DOMAIN step.command.params = {ParamKey(step.command.action)}
           /\ ParamValueOk(step.command.action,
                           step.command.params[ParamKey(step.command.action)])

\* nothing was there to extract, and the key holds the default
C12_Witness ==
    /\ Resolved
    /\ step.command.action = "weather"
    /\ step.command.params = [city |-> None]

-----------------------------------------------------------------------------
(* Further properties of the controller loop (specification Spec) *)

\* C13: every failure of the voice acquisition in Idle, whatever its error
\* kind, sets the mode to manual and leaves the loop idle, with nothing
\* resolved, logged or dispatched.
C13_AcquisitionFailureSwitchesToManual ==
    step.op = "idle_failed"
        => /\ current_mode = MODE_MANUAL
           /\ Idle
           /\ step.logged = <<>> /\ step.appended = <<>> /\ step.invoked = <<>>

\* C14: an exception raised during an iteration is caught at the loop
\* boundary: it is reported, the error message is passed to the output, the
\* run flag stays set and the loop goes on.
C14_ExceptionIsCaughtAndLoopContinues ==
    step.error # NoError
        => /\ Said(<<"I"," ","e","n","c","o","u","n","t","e","r","e","d"," ","a","n"," ","e","r","r","o","r","."," ","P","l","e","a","s","e"," ","t","r","y"," ","a","g","a","i","n",".">>)
           /\ is_running
           /\ Looping

\* the confirmation prompt of a reminder without a message has raised
C14_Witness ==
    /\ IdleDispatch
    /\ step.command.action = "reminder"
    /\ step.error = "KeyError"
    /\ Looping

\* C15: the dispatch of an exit command clears the run flag, and the only
\* step the loop takes after it is its return: nothing is acquired, resolved,
\* logged or invoked any more.
C15_ExitEndsLoop ==
    [][/\ (IdleDispatch /\ step.command.action = "exit")
            => /\ ~is_running
               /\ step'.op = "return" /\ pc' = "stopped"
               /\ step'.logged = <<>> /\ step'.appended = <<>> /\ step'.invoked = <<>>
       /\ pc # "stopped"]_vars

\* the loop has returned after an exit command
C15_Witness ==
    /\ step.op = "return"
    /\ pc = "stopped"
    /\ ~is_running
    /\ \E k \in DOMAIN command_history : command_history[k].command.action = "exit"

-----------------------------------------------------------------------------
(* Properties of calculate_seconds (specification SpecSeconds) *)

\* the seconds in one unit: the unit decides by its first letters, in any case
SecondsPerUnit(unit) ==
    IF StartsWith(lower(unit), <<"s","e","c","o","n","d">>) THEN 1
    ELSE IF StartsWith(lower(unit), <<"m","i","n","u","t","e">>) THEN 60
    ELSE IF StartsWith(lower(unit), <<"h","o","u","r">>) THEN 3600
    ELSE 1

\* C17: calculate_seconds returns value for a unit that starts with "second",
\* value * 60 for "minute", value * 3600 for "hour", in any case of letters,
\* and value for any other unit: 2 minutes are 120, 5 hour 18000 and 30
\* seconds 30.
C17_SecondsFor ==
    step.op = "calculate_seconds"
        => /\ step.command.seconds = step.command.value * SecondsPerUnit(step.command.unit)
           /\ (step.command.value = 2 /\ step.command.unit = <<"m","i","n","u","t","e","s">>)
                  => step.command.seconds = 120
           /\ (step.command.value = 5 /\ step.command.unit = <<"h","o","u","r">>)
                  => step.command.seconds = 18000
           /\ (step.command.value = 30 /\ step.command.unit = <<"s","e","c","o","n","d","s">>)
                  => step.command.seconds = 30
           /\ step.command.unit \in {<<"d","a","y">>, <<"m","i","n">>, <<"s","e","c">>, <<" ","m","i","n","u","t","e","s">>, <<>>}
                  => step.command.seconds = step.command.value

\* a unit in capitals has been converted
C17_Witness ==
    /\ step.op = "calculate_seconds"
    /\ step.command = [value |-> 5, unit |-> <<"H","O","U","R">>, seconds |-> 18000]

-----------------------------------------------------------------------------
(* Properties of the normalizer (specification SpecResolve) *)

FillerWords ==
    {<<"p","l","e","a","s","e">>, <<"h","e","y">>, <<"j","a","r","v","i","s">>, <<"o","k">>, <<"o","k","a","y">>, <<"s","o">>, <<"u","m">>, <<"u","h">>,
     <<"t","h","e">>, <<"a">>, <<"a","n">>}

FillerPhrases == {<<<<"c","o","u","l","d">>, <<"y","o","u">>>>, <<<<"w","o","u","l","d">>, <<"y","o","u">>>>}

\* no word of text is a filler and no two words in a row are a filler phrase
FreeOfFillers(text) ==
    LET words == split(text)
    IN  /\ \A i \in DOMAIN words : words[i] \notin FillerWords
        /\ \A i \in 1..(Len(words) - 1) : <<words[i], words[i + 1]>> \notin FillerPhrases

\* lowercase word characters, one blank between words, none at the ends
WellSpaced(text) ==
    /\ \A i \in DOMAIN text : text[i] \in (WordChars \ UpperChars) \cup {" "}
    /\ \A i \in 1..(Len(text) - 1) : ~(text[i] = " " /\ text[i + 1] = " ")
    /\ text # <<>> => (text[1] # " " /\ text[Len(text)] # " ")

\* C18: the output of the normalizer holds no filler as a whole word or
\* phrase, is made of lowercase word characters with single blanks between
\* the words and none at the ends, and is empty for an empty or None input.
C18_NormalizedIsClean ==
    Resolved
        => /\ FreeOfFillers(normalize(step.text))
           /\ WellSpaced(normalize(step.text))
           /\ step.text \in {None, <<>>} => normalize(step.text) = <<>>

-----------------------------------------------------------------------------
(* Properties of repeat and undo (specification SpecDispatch) *)

\* the step dispatched a repeat or an undo command
RepeatDispatch == step.op = "dispatch" /\ step.command.action = "repeat"

\* the step dispatched a repeat or undo command that dispatched a command of
\* the history again, and that command is sensitive
SensitiveRedispatch ==
    /\ RepeatDispatch
    /\ Len(step.appended) >= 2
    /\ step.appended[2].action \in SensitiveActions

\* C19: a repeat command dispatches again the most recent command that came
\* before it, an undo command the one before that; with no such entry in
\* the history nothing is dispatched again and a "no previous command"
\* message is said.
C19_RepeatRedispatchesPrevious ==
    [][(step'.op = "dispatch" /\ step'.command.action = "repeat")
         => LET offset == IF step'.command = RepeatCommand THEN 1 ELSE 2
                n == Len(command_history)
            IN  IF n >= offset
                THEN /\ Len(step'.appended) >= 2
                     /\ step'.appended[1] = step'.command
                     /\ step'.appended[2] = command_history[n - offset + 1].command
                ELSE /\ step'.appended = <<step'.command>>
                     /\ \E k \in DOMAIN step'.spoken :
                           step'.spoken[k].text
                               \in {<<"N","o"," ","p","r","e","v","i","o","u","s"," ","c","o","m","m","a","n","d"," ","t","o"," ","r","e","p","e","a","t">>,
                                    <<"N","o"," ","p","r","e","v","i","o","u","s"," ","c","o","m","m","a","n","d"," ","f","o","u","n","d">>}]_vars

\* C20 as claimed: a sensitive command that repeat or undo dispatches again
\* bypasses the confirmation: its handler runs and no pending confirmation
\* is stored.
C20_RedispatchBypassesGating ==
    SensitiveRedispatch
        => /\ step.pending_writes = <<>>
           /\ Len(step.invoked) = 1
           /\ step.invoked[1].fn = HandlerOf(step.appended[2].action)

\* C20 as amended: a sensitive command that repeat or undo dispatches again
\* goes through the confirmation like any dispatch: no handler runs, and the
\* command is stored as the pending confirmation, unless it is a reminder
\* without a message, whose prompt raises KeyError before anything is stored.
C20_RedispatchIsGated ==
    SensitiveRedispatch
        => /\ step.invoked = <<>>
           /\ \/ /\ pending_confirmation # NoneDict
                 /\ pending_confirmation.action = step.appended[2].action
                 /\ pending_confirmation.params = step.appended[2].params
                 /\ Len(step.pending_writes) = 1
                 /\ step.pending_writes[1].was = NoneDict
              \/ /\ step.appended[2].action = "reminder"
                 /\ ~Has(step.appended[2].params, "message")
                 /\ step.error = "KeyError"
                 /\ pending_confirmation = NoneDict
                 /\ step.pending_writes = <<>>

\* an undo command has dispatched the open_app command of the history again
C20_Witness ==
    /\ SensitiveRedispatch
    /\ step.command = UndoCommand
    /\ step.appended[2].action = "open_app"
    /\ pending_confirmation # NoneDict
    /\ step.invoked = <<>>

-----------------------------------------------------------------------------
(* Termination of re-dispatch, recovery while a confirmation is pending,   *)
(* the mode switch, the keys the controller reads                          *)

\* C21: every dispatch of a repeat or undo command ends by itself: the chain
\* of dispatches it starts stops before the depth at which the interpreter
\* gives up with a RecursionError.
C21_RedispatchChainIsFinite ==
    RepeatDispatch => step.error # "RecursionError"

\* C22: after a failed listen while a confirmation is pending the session
\* mode is manual.
C22_FailedConfirmListenSwitchesToManual ==
    step.op = "confirm_failed" => current_mode = MODE_MANUAL

\* C23: in manual mode, with no confirmation pending, there is a line the
\* user can type whose resolution and dispatch sets the mode back to voice.
C23_ManualCanSwitchBackToVoice ==
    (Idle /\ current_mode = MODE_MANUAL)
        => \E line \in Lines :
              /\ typed(line) # None
              /\ dispatch_text(State, typed(line)).current_mode = MODE_VOICE

\* the keys of params the confirmation prompt and the handler of an action
\* read
RequiredKeys(action) ==
    CASE action = "reminder" -> {"message", "value", "unit"}
      [] action = "alarm" -> {"value", "unit"}
      [] action = "open_app" -> {"app"}
      [] action \in {"wikipedia", "search"} -> {"query"}
      [] action = "volume" -> {"adjustment"}
      [] action = "voice_style" -> {"style"}
      [] action = "listening" -> {"mode"}
      [] OTHER -> {}

\* C24: the params of every command the loop resolves hold every key the
\* controller reads for its action, and its dispatch does not fail on a
\* missing key.
C24_ResolvedParamsHoldEveryKeyRead ==
    IdleDispatch =>
        /\ RequiredKeys(step.command.action) \subseteq DOMAIN step.command.params
        /\ step.error # "KeyError"

\* C25: from a state with a pending confirmation the loop only handles a
\* yes/no response (or is interrupted): the step resolves no utterance, writes
\* no log record and invokes no handler but that of the pending command.
C25_PendingIterationOnlyAcquiresResponse ==
    [][pending_confirmation # NoneDict =>
          /\ step'.op \in {"confirm_heard", "confirm_typed", "confirm_failed", "interrupt"}
          /\ step'.logged = <<>>
          /\ \A k \in DOMAIN step'.invoked :
                step'.invoked[k].fn = HandlerOf(pending_confirmation.action)]_vars

\* a listen failed while a confirmation was pending, and it still is
C25_Witness ==
    /\ step.op = "confirm_failed"
    /\ pending_confirmation # NoneDict
    /\ step.logged = <<>>

-----------------------------------------------------------------------------
(* History entries per utterance, iterations that obtain no utterance      *)

\* C29: an utterance resolved in Idle adds one entry to the history when it
\* is dispatched, and the response that later confirms or cancels it adds
\* none.
C29_OneHistoryEntryPerUtterance ==
    /\ IdleDispatch => Len(step.appended) = 1
    /\ ConfirmResponse => step.appended = <<>>

\* the step was an iteration that obtained no utterance
NoUtterance(s) == s.op \in {"idle_failed", "confirm_failed", "idle_empty"}

\* C30: an iteration in which no utterance is obtained leaves the history and
\* the pending slot as they were, writes no log record and invokes no handler.
C30_NoUtteranceChangesNothing ==
    [][NoUtterance(step') =>
          /\ command_history' = command_history
          /\ pending_confirmation' = pending_confirmation
          /\ step'.appended = <<>>
          /\ step'.pending_writes = <<>>
          /\ step'.logged = <<>>
          /\ step'.invoked = <<>>]_vars

\* an empty line was typed in Idle after commands had been dispatched
C30_Witness ==
    /\ step.op = "idle_empty"
    /\ command_history # <<>>
    /\ pending_confirmation = NoneDict

-----------------------------------------------------------------------------
(* Timers *)

\* C26: a firing of a timer only speaks: whatever the loop is doing, it leaves
\* the history, the pending slot, the session mode and the run flag as they
\* were, and it invokes, logs and appends nothing.
C26_TimerFiringOnlySpeaks ==
    [][step'.op = "alarm_thread" =>
          /\ UNCHANGED <<command_history, pending_confirmation, current_mode, is_running>>
          /\ step'.invoked = <<>>
          /\ step'.logged = <<>>
          /\ step'.appended = <<>>
          /\ step'.pending_writes = <<>>
          /\ Len(step'.spoken) = 1]_vars

\* a timer fired while the loop was awaiting a yes/no response
C26_Witness ==
    /\ step.op = "alarm_thread"
    /\ pending_confirmation # NoneDict
    /\ command_history # <<>>

Registered(k) == Len(alarm_threads) >= k

Fired(k) == Registered(k) /\ alarm_threads[k].fired

\* C27 as stated: every timer that has been scheduled eventually fires.
C27_EveryTimerEventuallyFires ==
    \A k \in 1..MaxTimers : Registered(k) ~> Fired(k)

\* C27, amended: a call that schedules a timer returns with exactly one new,
\* unfired handle at the end of the registry and one thread started; the
\* registry never shrinks; a firing is the first and only call of one
\* timer's callback and touches no other timer; and every scheduled timer
\* eventually fires unless the process ends first.
C27_TimerFiresOnceWhileProcessLives ==
    /\ [][/\ Len(alarm_threads') >= Len(alarm_threads)
          /\ \A k \in DOMAIN alarm_threads :
                /\ alarm_threads'[k].seconds = alarm_threads[k].seconds
                /\ alarm_threads'[k].message = alarm_threads[k].message
                /\ alarm_threads[k].fired => alarm_threads'[k].fired
          /\ (step'.op \in {"_set_alarm", "_set_reminder"} /\ step'.error = NoError) =>
                /\ Len(alarm_threads') = Len(alarm_threads) + 1
                /\ ~alarm_threads'[Len(alarm_threads')].fired
                /\ \A k \in DOMAIN alarm_threads : alarm_threads'[k] = alarm_threads[k]
                /\ Len(step'.invoked) = 1
                /\ step'.invoked[1].fn = "threading.Thread.start"
          /\ step'.op = "alarm_thread" =>
                /\ Len(alarm_threads') = Len(alarm_threads)
                /\ \E k \in DOMAIN alarm_threads :
                      /\ ~alarm_threads[k].fired /\ alarm_threads'[k].fired
                      /\ Len(step'.spoken) = 1
                      /\ step'.spoken[1].text = alarm_threads[k].message
                      /\ \A j \in DOMAIN alarm_threads \ {k} :
                            alarm_threads'[j] = alarm_threads[j]
          /\ step'.op \notin {"_set_alarm", "_set_reminder", "alarm_thread"} =>
                alarm_threads' = alarm_threads]_vars
    /\ \A k \in 1..MaxTimers : Registered(k) ~> (Fired(k) \/ pc = "stopped")

\* the second of two timers has fired and the first has not
C27_Witness ==
    /\ Len(alarm_threads) = 2
    /\ alarm_threads[2].fired
    /\ ~alarm_threads[1].fired

-----------------------------------------------------------------------------
(* The retry loop of listen *)

Retried == {"WaitTimeoutError", "UnknownValueError"}

\* C28: a call of listen makes at most MAX_RECOGNITION_RETRIES attempts and
\* has returned when it has made that many. It goes on only after a timeout
\* or an unrecognized attempt. It returns success, with a text and no error,
\* on the first recognized attempt; failure, with an error and no text, at
\* once on a network or other error, and on the timeout or unrecognized
\* attempt that brings their number to the limit.
C28_ListenReturnsWithinRetryLimit ==
    step.op = "listen" =>
        LET l == step.command
            n == Len(l.attempts)
        IN  /\ n <= MAX_RECOGNITION_RETRIES
            /\ n = MAX_RECOGNITION_RETRIES => l.returned
            /\ \A k \in 1..(n - 1) : l.attempts[k] \in Retried
            /\ ~l.returned => \A k \in 1..n : l.attempts[k] \in Retried
            /\ l.returned =>
                  /\ n >= 1
                  /\ l.success <=> l.attempts[n] = "recognized"
                  /\ l.success => l.text # None /\ l.error = None
                  /\ ~l.success => l.text = None /\ l.error # None
                  /\ l.attempts[n] = "RequestError" =>
                        StartsWith(l.error, <<"n","e","t","w","o","r","k","_","e","r","r","o","r",":"," ">>)
                  /\ l.attempts[n] = "Exception" => StartsWith(l.error, <<"e","r","r","o","r",":"," ">>)
                  /\ l.attempts[n] \in Retried =>
                        /\ n = MAX_RECOGNITION_RETRIES
                        /\ l.error = IF l.attempts[n] = "WaitTimeoutError"
                                     THEN <<"t","i","m","e","o","u","t">> ELSE <<"u","n","k","n","o","w","n">>

\* a timeout and two unrecognized attempts reach the limit together
C28_Witness ==
    /\ step.op = "listen"
    /\ step.command.returned
    /\ step.command.attempts = <<"WaitTimeoutError", "UnknownValueError", "UnknownValueError">>
    /\ step.command.error = <<"u","n","k","n","o","w","n">>

-----------------------------------------------------------------------------
(* The strict-keyword fallback *)

\* the first two keywords of the k-th intent
FirstTwoKeywords(k) ==
    {intent_definitions[k].keywords[j] :
        j \in {i \in 1..2 : i <= Len(intent_definitions[k].keywords)}}

\* C31: in the catalog the first two keywords of every intent make up at
\* least a quarter of its keywords. So whenever no pattern is found and the
\* first two keywords of some intent are all among the tokens, the best
\* overlap score is at least 0.25 and the command is that of the overlap
\* pass; and whenever no pattern is found and the best score is below 0.25,
\* no intent has its first two keywords among the tokens and the command is
\* "unknown".
C31_StrictFallbackNeverDecides ==
    /\ \A k \in DOMAIN intent_definitions :
          intent_definitions[k].keywords # <<>>
              => 4 * Cardinality(FirstTwoKeywords(k)) >= Keywords(k)
    /\ (Resolved /\ step.text \notin {None, <<>>}) =>
          LET text == normalize(step.text)
              toks == tokens(text)
              best == sort_scores(overlap_scores(toks))[1]
          IN  /\ (FirstPatternIntent(text) = 0 /\ StrictFallbackIntent(toks) # 0) =>
                    /\ 4 * best[2][1] >= best[2][2]
                    /\ step.command.action = best[1]
              /\ (FirstPatternIntent(text) = 0 /\ 4 * best[2][1] < best[2][2]) =>
                    /\ StrictFallbackIntent(toks) = 0
                    /\ step.command.action = "unknown"

\* no pattern is found in a text that holds the first two keywords of an
\* intent and a third word, and the text is resolved to an intent
C31_Witness ==
    /\ Resolved
    /\ step.text \notin {None, <<>>}
    /\ FirstPatternIntent(normalize(step.text)) = 0
    /\ StrictFallbackIntent(tokens(normalize(step.text))) # 0
    /\ Len(tokens(normalize(step.text))) = 3
    /\ step.command.action = "wikipedia"

====
